---- MODULE Spec2Model ----
(***************************************************************************)
(* Device registration portal: the devices/admins tables of devices.db,    *)
(* the Flask handlers of app.py, the two Telegram bot implementations      *)
(* (bot.py with the serial step, telegram_bot/bot.py without it) and the   *)
(* schema migration of app.init_db / migrate_db.migrate.                   *)
(*                                                                         *)
(* Every process (web worker, bot, migration script) talks to the same     *)
(* SQLite file; one action is one handler, except where the handler        *)
(* releases the database between two statements (SELECT then INSERT of a   *)
(* registration, the autocommitted DDL statements of a migration): there   *)
(* the handler is one action per statement and other processes interleave. *)
(***************************************************************************)
EXTENDS Integers, FiniteSets, Sequences, TLC

----------------------------------------------------------------------------
(* Bounds of the model *)

MaxWorkers == 2      \* concurrent web requests inside /register
MaxDevices == 2      \* rows ever inserted into devices (AUTOINCREMENT ids)
MaxUsers   == 2      \* Telegram users talking to the bot
MaxClients == 1    \* browsers holding a Flask session cookie
MaxTasks == 2      \* webhook deliveries in flight
MaxTime == 2       \* seconds the clock of the web server runs

(* Program constants *)

MaxNameLen    == 100
MaxSerialLen  == 100
MaxOsLen      == 50
MaxBrowserLen == 50
WAITING_FOR_DEVICE_NAME   == 1
WAITING_FOR_SERIAL_NUMBER == 2
END == -1            \* ConversationHandler.END

Workers == 1..MaxWorkers
Users   == 1..MaxUsers
Clients == 1..MaxClients

----------------------------------------------------------------------------
(* Strings.  A string is `lead` blanks, then the character `ch` repeated   *)
(* `n` times, then `trail` blanks; that is enough to tell empty, blank,    *)
(* maximal and oversized inputs apart and to make strip() do something.    *)

S(lead, ch, n, trail) ==
    [lead |-> lead, ch |-> IF n = 0 THEN "" ELSE ch, n |-> n, trail |-> trail]

Lit(text, n) == [lead |-> 0, ch |-> text, n |-> n, trail |-> 0]

EmptyStr == S(0, "", 0, 0)

\* SQL NULL in a TEXT column
NULL == [lead |-> 0, ch |-> "NULL", n |-> -1, trail |-> 0]

\* SQL NULL / absent value in the INTEGER column is_authorized
NoValue == -1

len(s) == s.lead + s.n + s.trail

strip(s) == IF s.n = 0 THEN EmptyStr ELSE [s EXCEPT !.lead = 0, !.trail = 0]

\* Python None (context.user_data.get on a missing key)
None == [lead |-> 0, ch |-> "None", n |-> -1, trail |-> 0]

----------------------------------------------------------------------------
(* Inputs *)

\* empty, blank, one character, padded maximal, oversized
NameInputs ==
    {EmptyStr, S(1, "n", 0, 0), S(0, "n", 1, 0), S(1, "n", MaxNameLen, 0),
     S(0, "n", MaxNameLen + 1, 0)}
SerialInputs ==
    {EmptyStr, S(1, "s", 0, 0), S(0, "s", 1, 0), S(1, "s", MaxSerialLen, 0),
     S(0, "s", MaxSerialLen + 1, 0)}
OsInputs      == { S(0, "o", n, 0) : n \in {0, MaxOsLen + 1} }
BrowserInputs == { S(0, "b", n, 0) : n \in {0, MaxBrowserLen + 1} }

\* request bodies of POST /register
WebData ==
    [kind : {"object"}, name : NameInputs, serial_number : SerialInputs,
     os : OsInputs, browser : BrowserInputs]
    \cup [kind : {"notjson", "empty"}, name : {EmptyStr}, serial_number : {EmptyStr},
          os : {EmptyStr}, browser : {EmptyStr}]

----------------------------------------------------------------------------
VARIABLES
    schema,      \* what devices.db holds: [table, serialCol, uniqueIdx, authCol, admins]
    devices,     \* rows of table devices
    nextId,      \* AUTOINCREMENT counter of devices (sqlite_sequence + 1)
    admins,      \* rows of table admins
    session,     \* Flask session of each client (signed cookie)
    webPc,       \* per web worker: the registration between its SELECT and its INSERT
    botImpl,     \* which bot runs: "serial" (bot.py) or "legacy" (telegram_bot/bot.py)
    conv,        \* ConversationHandler state per user
    user_data,   \* context.user_data per user
    botPc,       \* the bot's registration between its SELECT and its INSERT
    mig,         \* per migration script: program counter and PRAGMA snapshot
    resp,        \* the reply of the last step: [op, who, code, msg]
    nextAdminId, \* AUTOINCREMENT counter of admins
    hook,        \* the webhook server: [mode, secret]
    tasks,       \* webhook updates being processed, in arrival order
    readPc,      \* GET /api/devices/stats between its SELECTs: the total it has read
    now,         \* time.time() of the web server, in ticks
    loginPc,     \* per worker: the POST /login between its SELECT and what follows
    adminPc,     \* init_admin between `SELECT id, password` and its UPDATEs
    dropped,     \* session cookies the server has told a browser to delete
    USER_DB,     \* test1.py USER_DB: the lookup bot's account of each user
    IMEI_STATE   \* test1.py STATE: the service each user is asked an IMEI for

vars == <<schema, devices, nextId, admins, session, webPc, botImpl, conv,
          user_data, botPc, mig, resp, nextAdminId, hook, tasks, readPc,
          now, loginPc, adminPc, dropped, USER_DB, IMEI_STATE>>

dbVars   == <<schema, devices, nextId, admins>>
botVars  == <<botImpl, conv, user_data, botPc>>
hookVars == <<hook, tasks>>
authVars == <<now, loginPc, adminPc, dropped>>
lookupVars == <<USER_DB, IMEI_STATE>>

Idle == 0            \* no entry for the user in ConversationHandler's state map

NoSession == [admin |-> "", admin_id |-> 0, iat |-> 0]
NoReq     == [name |-> None, serial_number |-> None, os |-> None, browser |-> None]
NoBotReq  == [user |-> 0, device_name |-> None, serial_number |-> None]
NoRead    == -1
NoState   == -1      \* user_data without the key 'state'
NoLogin   == [client |-> 0, username |-> "", password |-> "", rows |-> {}]
NoInitAdmin == [pc |-> "idle", rows |-> {}]
Absent    == [registered |-> FALSE]
HookOff   == [mode |-> "off", secret |-> ""]

R(op, who, code, msg) == [op |-> op, who |-> who, code |-> code, msg |-> msg]

----------------------------------------------------------------------------
(* The database *)

FreshSchema ==
    [table |-> FALSE, serialCol |-> FALSE, uniqueIdx |-> FALSE, authCol |-> FALSE,
     admins |-> FALSE]
\* a devices table from before serial_number and is_authorized were added
LegacySchema ==
    [table |-> TRUE, serialCol |-> FALSE, uniqueIdx |-> FALSE, authCol |-> FALSE,
     admins |-> TRUE]
CurrentSchema ==
    [table |-> TRUE, serialCol |-> TRUE, uniqueIdx |-> TRUE, authCol |-> TRUE,
     admins |-> TRUE]

\* SELECT id FROM devices WHERE serial_number = ?
SerialExists(serial) == \E d \in devices : d.serial_number = serial

\* SELECT id FROM devices WHERE id = ?
DeviceExists(id) == \E d \in devices : d.id = id

\* outcome of the SELECT on serial_number: sqlite3 raises when the column is not there
SelectSerialOutcome ==
    IF schema.table /\ schema.serialCol THEN "ok" ELSE "OperationalError"

\* NewRow with the row stored as authorized whatever the INSERT says
NewRowAuthorized(id, name, serial, os, browser, auth) ==
    [id |-> id, name |-> name, serial_number |-> serial, os |-> os,
     browser |-> browser, is_authorized |-> 1, registered_at |-> id]

\* NewRow in a table declared without AUTOINCREMENT: the id is one more than
\* the highest id in the table
NewRowRowid(id, name, serial, os, browser, auth) ==
    [id |-> IF devices = {} THEN 1
            ELSE (CHOOSE d \in devices : \A e \in devices : e.id <= d.id).id + 1,
     name |-> name, serial_number |-> serial, os |-> os,
     browser |-> browser, is_authorized |-> auth, registered_at |-> id]

\* the row an INSERT creates; registered_at DEFAULT CURRENT_TIMESTAMP is kept as
\* the ordinal of the INSERT, a clock that never runs backwards
NewRow(id, name, serial, os, browser, auth) ==
    [id |-> id, name |-> name, serial_number |-> serial, os |-> os,
     browser |-> browser, is_authorized |-> auth, registered_at |-> id]

\* outcome of INSERT INTO devices (name, serial_number, os, browser, ip, is_authorized)
InsertSerialOutcome(serial) ==
    IF ~(schema.table /\ schema.serialCol /\ schema.authCol) THEN "OperationalError"
    ELSE IF schema.uniqueIdx /\ SerialExists(serial) THEN "IntegrityError"
    ELSE "ok"

----------------------------------------------------------------------------
(* POST /register (app.py) *)

\* RegisterValidation with the length of the name tested before the presence of
\* the serial number
RegisterValidationLengthFirst(data) ==
    IF data.kind = "notjson" THEN "Content-Type must be application/json"
    ELSE IF data.kind = "empty" THEN "Invalid JSON data"
    ELSE LET name == strip(data.name)
             serial_number == strip(data.serial_number)
             os_name == strip(data.os)
             browser == strip(data.browser)
         IN  IF len(name) = 0 THEN "Device name is required"
             ELSE IF len(name) > MaxNameLen THEN "Device name is too long"
             ELSE IF len(serial_number) = 0 THEN "Serial number is required"
             ELSE IF len(serial_number) > MaxSerialLen THEN "Serial number is too long"
             ELSE IF len(os_name) > MaxOsLen THEN "OS name is too long"
             ELSE IF len(browser) > MaxBrowserLen THEN "Browser name is too long"
             ELSE "ok"

\* the validation cascade of register_device; "ok" when every check passes
RegisterValidation(data) ==
    IF data.kind = "notjson" THEN "Content-Type must be application/json"
    ELSE IF data.kind = "empty" THEN "Invalid JSON data"
    ELSE LET name == strip(data.name)
             serial_number == strip(data.serial_number)
             os_name == strip(data.os)
             browser == strip(data.browser)
         IN  IF len(name) = 0 THEN "Device name is required"
             ELSE IF len(serial_number) = 0 THEN "Serial number is required"
             ELSE IF len(name) > MaxNameLen THEN "Device name is too long"
             ELSE IF len(serial_number) > MaxSerialLen THEN "Serial number is too long"
             ELSE IF len(os_name) > MaxOsLen THEN "OS name is too long"
             ELSE IF len(browser) > MaxBrowserLen THEN "Browser name is too long"
             ELSE "ok"

\* what register_device answers up to and including its SELECT; code 0 when the
\* request goes on to the INSERT
RegisterReply(data) ==
    LET v == RegisterValidation(data)
    IN  IF v # "ok" THEN [code |-> 400, msg |-> v]
        ELSE IF SelectSerialOutcome # "ok"
        THEN [code |-> 500, msg |-> "Database error occurred"]
        ELSE IF SerialExists(strip(data.serial_number))
        THEN [code |-> 400, msg |-> "Serial number is already registered"]
        ELSE [code |-> 0, msg |-> ""]

\* register_device up to and including its SELECT
WebRegisterCheck(w, data) ==
    /\ webPc[w] = NoReq
    /\ LET reply == RegisterReply(data)
       IN  IF reply.code # 0
           THEN /\ resp' = R("register", w, reply.code, reply.msg)
                /\ UNCHANGED webPc
           ELSE /\ webPc' = [webPc EXCEPT ![w] =
                       [name |-> strip(data.name),
                        serial_number |-> strip(data.serial_number),
                        os |-> strip(data.os), browser |-> strip(data.browser)]]
                /\ resp' = R("register_select", w, 0, "")
    /\ UNCHANGED <<dbVars, session, botVars, mig, nextAdminId, hookVars, readPc, authVars, lookupVars>>

\* WebRegisterInsert with INSERT OR REPLACE: the row that holds the serial gives
\* way to the new one, and the request is still answered as failed
WebRegisterInsertReplace(w) ==
    /\ webPc[w] # NoReq
    /\ LET r == webPc[w]
           out == InsertSerialOutcome(r.serial_number)
       IN  /\ out # "OperationalError" => nextId <= MaxDevices
           /\ IF out = "OperationalError"
              THEN /\ UNCHANGED <<devices, nextId>>
                   /\ resp' = R("register", w, 500, "Database error occurred")
              ELSE /\ devices' =
                          { d \in devices : d.serial_number # r.serial_number } \cup
                          {NewRow(nextId, r.name, r.serial_number, r.os, r.browser, 0)}
                   /\ nextId' = nextId + 1
                   /\ resp' = IF out = "ok"
                              THEN R("register", w, 200, "Device registered successfully")
                              ELSE R("register", w, 500, "Database error occurred")
    /\ webPc' = [webPc EXCEPT ![w] = NoReq]
    /\ UNCHANGED <<schema, admins, session, botVars, mig, nextAdminId, hookVars, readPc,
                   authVars, lookupVars>>

\* register_device from its INSERT on
WebRegisterInsert(w) ==
    /\ webPc[w] # NoReq
    /\ LET r == webPc[w]
           out == InsertSerialOutcome(r.serial_number)
       IN  /\ out = "ok" => nextId <= MaxDevices
           /\ IF out = "ok"
              THEN /\ devices' = devices \cup
                          {NewRow(nextId, r.name, r.serial_number, r.os, r.browser, 0)}
                   /\ nextId' = nextId + 1
                   /\ resp' = R("register", w, 200, "Device registered successfully")
              ELSE /\ UNCHANGED <<devices, nextId>>
                   /\ resp' = R("register", w, 500, "Database error occurred")
    /\ webPc' = [webPc EXCEPT ![w] = NoReq]
    /\ UNCHANGED <<schema, admins, session, botVars, mig, nextAdminId, hookVars, readPc, authVars, lookupVars>>

----------------------------------------------------------------------------
(* Schema migration: app.init_db and migrate_db.migrate.  Python's sqlite3 *)
(* opens no transaction for DDL, so every statement commits on its own.    *)

Migrators == {"init_db", "migrate"}

MigIdle == [pc |-> "idle", auth |-> FALSE]

\* what follows the serial_number branch: the is_authorized branch, the admins
\* table (init_db only), or the end
AfterSerial(m, colsAuth) ==
    IF ~colsAuth THEN "alter_auth" ELSE IF m = "init_db" THEN "admins" ELSE "idle"

AfterAuth(m) == IF m = "init_db" THEN "admins" ELSE "idle"

\* the script's locals at a program counter: nothing is kept once it has ended
At(pc, colsAuth) == IF pc = "idle" THEN MigIdle ELSE [pc |-> pc, auth |-> colsAuth]

\* CREATE TABLE IF NOT EXISTS devices (... serial_number TEXT UNIQUE ...)
MigCreateTable(m) ==
    /\ m = "init_db"
    /\ mig[m].pc = "idle"
    /\ schema' = IF schema.table THEN schema
                 ELSE [schema EXCEPT !.table = TRUE, !.serialCol = TRUE,
                                     !.uniqueIdx = TRUE, !.authCol = TRUE]
    /\ mig' = [mig EXCEPT ![m].pc = "pragma"]
    /\ resp' = R("migrate", 0, 0, "create_table")
    /\ UNCHANGED <<devices, nextId, admins, session, webPc, botVars, nextAdminId, hookVars, readPc, authVars, lookupVars>>

\* PRAGMA table_info(devices): the column list the two `not in columns` tests read
MigPragma(m) ==
    /\ mig[m].pc = IF m = "init_db" THEN "pragma" ELSE "idle"
    /\ LET hasSerial == schema.table /\ schema.serialCol
           hasAuth == schema.table /\ schema.authCol
       IN  mig' = [mig EXCEPT ![m] =
                     At(IF ~hasSerial THEN "alter_serial" ELSE AfterSerial(m, hasAuth),
                        hasAuth)]
    /\ resp' = R("migrate", 0, 0, "pragma")
    /\ UNCHANGED <<dbVars, session, webPc, botVars, nextAdminId, hookVars, readPc, authVars, lookupVars>>

\* ALTER TABLE devices ADD COLUMN serial_number TEXT; an error skips the index
MigAlterSerial(m) ==
    /\ mig[m].pc = "alter_serial"
    /\ IF schema.table /\ ~schema.serialCol
       THEN /\ schema' = [schema EXCEPT !.serialCol = TRUE]
            /\ mig' = [mig EXCEPT ![m].pc = "create_index"]
            /\ resp' = R("migrate", 0, 0, "alter_serial")
       ELSE /\ UNCHANGED schema
            /\ mig' = [mig EXCEPT ![m] = At(AfterSerial(m, mig[m].auth), mig[m].auth)]
            /\ resp' = R("migrate", 0, 0, "OperationalError")
    /\ UNCHANGED <<devices, nextId, admins, session, webPc, botVars, nextAdminId, hookVars, readPc, authVars, lookupVars>>

\* two rows with the same non-null serial_number
HasDuplicateSerial ==
    \E d1, d2 \in devices :
        d1 # d2 /\ d1.serial_number # NULL /\ d1.serial_number = d2.serial_number

\* CREATE UNIQUE INDEX IF NOT EXISTS idx_devices_serial_number.  It raises
\* IntegrityError on duplicates: migrate() catches it, init_db catches only
\* OperationalError and ends there.
MigCreateIndex(m) ==
    /\ mig[m].pc = "create_index"
    /\ IF schema.uniqueIdx \/ ~HasDuplicateSerial
       THEN /\ schema' = [schema EXCEPT !.uniqueIdx = TRUE]
            /\ mig' = [mig EXCEPT ![m] = At(AfterSerial(m, mig[m].auth), mig[m].auth)]
            /\ resp' = R("migrate", 0, 0, "create_index")
       ELSE /\ UNCHANGED schema
            /\ mig' = [mig EXCEPT ![m] =
                         At(IF m = "init_db" THEN "idle" ELSE AfterSerial(m, mig[m].auth),
                            mig[m].auth)]
            /\ resp' = R("migrate", 0, 0, "IntegrityError")
    /\ UNCHANGED <<devices, nextId, admins, session, webPc, botVars, nextAdminId, hookVars, readPc, authVars, lookupVars>>

\* the value existing rows read after ADD COLUMN is_authorized INTEGER DEFAULT 0
AddedColumnDefault == 0

\* ALTER TABLE devices ADD COLUMN is_authorized INTEGER DEFAULT 0
MigAlterAuth(m) ==
    /\ mig[m].pc = "alter_auth"
    /\ IF schema.table /\ ~schema.authCol
       THEN /\ schema' = [schema EXCEPT !.authCol = TRUE]
            /\ devices' = { [d EXCEPT !.is_authorized = AddedColumnDefault] : d \in devices }
            /\ resp' = R("migrate", 0, 0, "alter_auth")
       ELSE /\ UNCHANGED <<schema, devices>>
            /\ resp' = R("migrate", 0, 0, "OperationalError")
    /\ mig' = [mig EXCEPT ![m] = At(AfterAuth(m), mig[m].auth)]
    /\ UNCHANGED <<nextId, admins, session, webPc, botVars, nextAdminId, hookVars, readPc, authVars, lookupVars>>

\* CREATE TABLE IF NOT EXISTS admins; conn.commit()
MigCreateAdmins(m) ==
    /\ mig[m].pc = "admins"
    /\ schema' = [schema EXCEPT !.admins = TRUE]
    /\ mig' = [mig EXCEPT ![m] = MigIdle]
    /\ resp' = R("migrate", 0, 0, "done")
    /\ UNCHANGED <<devices, nextId, admins, session, webPc, botVars, nextAdminId, hookVars, readPc, authVars, lookupVars>>

----------------------------------------------------------------------------
(* The Telegram bot.  The Application handles one update at a time, so no  *)
(* bot step starts while a registration of the bot is between its SELECT   *)
(* and its INSERT (botPc); web workers and migrations are other processes. *)

\* os_name and browser of a device registered through the bot
Telegram    == Lit("Telegram", 8)
TelegramBot == Lit("Telegram Bot", 12)

\* what ConversationHandler stores for a handler's return value
ConvNext(ret) == IF ret = END THEN Idle ELSE ret

\* InvalidText with the limit one character too high
InvalidTextLoose(text, limit) == len(strip(text)) = 0 \/ len(strip(text)) > limit + 1

\* `not text or len(text) > limit` after strip()
InvalidText(text, limit) == len(strip(text)) = 0 \/ len(strip(text)) > limit

\* /register: entry point of the conversation (no re-entry while one is open)
BotRegisterCommand(u) ==
    /\ botPc = NoBotReq
    /\ conv[u] = Idle
    /\ conv' = [conv EXCEPT ![u] = ConvNext(WAITING_FOR_DEVICE_NAME)]
    /\ resp' = R("bot_register", u, 0, "Please send me the name for your device")
    /\ UNCHANGED <<dbVars, session, webPc, botImpl, user_data, botPc, mig, nextAdminId, hookVars, readPc, authVars, lookupVars>>

\* register_device_name keeping the name in one place for all users
register_device_name_shared(u, text) ==
    IF InvalidText(text, MaxNameLen)
    THEN /\ conv' = [conv EXCEPT ![u] = ConvNext(WAITING_FOR_DEVICE_NAME)]
         /\ resp' = R("bot_name", u, 0, "Invalid device name")
         /\ UNCHANGED user_data
    ELSE /\ user_data' = [v \in Users |-> [user_data[v] EXCEPT !.device_name = strip(text)]]
         /\ conv' = [conv EXCEPT ![u] = ConvNext(WAITING_FOR_SERIAL_NUMBER)]
         /\ resp' = R("bot_name", u, 0, "Now please send me the Serial Number")

\* register_device_name keeping a name that user_data already holds
register_device_name_keep(u, text) ==
    IF InvalidText(text, MaxNameLen)
    THEN /\ conv' = [conv EXCEPT ![u] = ConvNext(WAITING_FOR_DEVICE_NAME)]
         /\ resp' = R("bot_name", u, 0, "Invalid device name")
         /\ UNCHANGED user_data
    ELSE /\ user_data' = IF user_data[u].device_name = None
                         THEN [user_data EXCEPT ![u].device_name = strip(text)]
                         ELSE user_data
         /\ conv' = [conv EXCEPT ![u] = ConvNext(WAITING_FOR_SERIAL_NUMBER)]
         /\ resp' = R("bot_name", u, 0, "Now please send me the Serial Number")

\* bot.py register_device_name: validate, keep the name, ask for the serial
register_device_name(u, text) ==
    IF InvalidText(text, MaxNameLen)
    THEN /\ conv' = [conv EXCEPT ![u] = ConvNext(WAITING_FOR_DEVICE_NAME)]
         /\ resp' = R("bot_name", u, 0, "Invalid device name")
         /\ UNCHANGED user_data
    ELSE /\ user_data' = [user_data EXCEPT ![u].device_name = strip(text)]
         /\ conv' = [conv EXCEPT ![u] = ConvNext(WAITING_FOR_SERIAL_NUMBER)]
         /\ resp' = R("bot_name", u, 0, "Now please send me the Serial Number")

\* BotDeviceName writing the device as soon as the name is valid
BotDeviceNameEager(u, text) ==
    /\ botImpl = "serial"
    /\ botPc = NoBotReq
    /\ conv[u] = WAITING_FOR_DEVICE_NAME
    /\ nextId <= MaxDevices
    /\ register_device_name(u, text)
    /\ devices' = IF InvalidText(text, MaxNameLen) THEN devices
                  ELSE devices \cup {NewRow(nextId, strip(text), NULL, Telegram,
                                            TelegramBot, 0)}
    /\ nextId' = IF InvalidText(text, MaxNameLen) THEN nextId ELSE nextId + 1
    /\ UNCHANGED <<schema, admins, session, webPc, botImpl, botPc, mig, nextAdminId,
                   hookVars, readPc, authVars, lookupVars>>

BotDeviceName(u, text) ==
    /\ botImpl = "serial"
    /\ botPc = NoBotReq
    /\ conv[u] = WAITING_FOR_DEVICE_NAME
    /\ register_device_name(u, text)
    /\ UNCHANGED <<dbVars, session, webPc, botImpl, botPc, mig, nextAdminId, hookVars, readPc, authVars, lookupVars>>

\* register_serial_number_select ending the conversation when the serial is taken
register_serial_number_abort(u, text) ==
    LET serial_number == strip(text)
        device_name == user_data[u].device_name
    IN  IF InvalidText(text, MaxSerialLen)
        THEN /\ conv' = [conv EXCEPT ![u] = ConvNext(WAITING_FOR_SERIAL_NUMBER)]
             /\ resp' = R("bot_serial", u, 0, "Invalid serial number")
             /\ UNCHANGED botPc
        ELSE IF SelectSerialOutcome # "ok"
        THEN /\ conv' = [conv EXCEPT ![u] = ConvNext(END)]
             /\ resp' = R("bot_serial", u, 0, "An error occurred while registering your device")
             /\ UNCHANGED botPc
        ELSE IF SerialExists(serial_number)
        THEN /\ conv' = [conv EXCEPT ![u] = ConvNext(END)]
             /\ resp' = R("bot_serial", u, 0, "Serial number is already registered")
             /\ UNCHANGED botPc
        ELSE /\ botPc' = [user |-> u, device_name |-> device_name,
                          serial_number |-> serial_number]
             /\ resp' = R("bot_serial_select", u, 0, "")
             /\ UNCHANGED conv

\* bot.py register_serial_number up to and including its SELECT
register_serial_number_select(u, text) ==
    LET serial_number == strip(text)
        device_name == user_data[u].device_name
    IN  IF InvalidText(text, MaxSerialLen)
        THEN /\ conv' = [conv EXCEPT ![u] = ConvNext(WAITING_FOR_SERIAL_NUMBER)]
             /\ resp' = R("bot_serial", u, 0, "Invalid serial number")
             /\ UNCHANGED botPc
        ELSE IF SelectSerialOutcome # "ok"
        THEN /\ conv' = [conv EXCEPT ![u] = ConvNext(END)]
             /\ resp' = R("bot_serial", u, 0, "An error occurred while registering your device")
             /\ UNCHANGED botPc
        ELSE IF SerialExists(serial_number)
        THEN /\ conv' = [conv EXCEPT ![u] = ConvNext(WAITING_FOR_SERIAL_NUMBER)]
             /\ resp' = R("bot_serial", u, 0, "Serial number is already registered")
             /\ UNCHANGED botPc
        ELSE /\ botPc' = [user |-> u, device_name |-> device_name,
                          serial_number |-> serial_number]
             /\ resp' = R("bot_serial_select", u, 0, "")
             /\ UNCHANGED conv

BotSerialCheck(u, text) ==
    /\ botImpl = "serial"
    /\ botPc = NoBotReq
    /\ conv[u] = WAITING_FOR_SERIAL_NUMBER
    /\ register_serial_number_select(u, text)
    /\ UNCHANGED <<dbVars, session, webPc, botImpl, user_data, mig, nextAdminId, hookVars, readPc, authVars, lookupVars>>

\* bot.py register_serial_number from its INSERT on
BotSerialInsert ==
    /\ botPc # NoBotReq
    /\ LET u == botPc.user
           out == InsertSerialOutcome(botPc.serial_number)
       IN  /\ out = "ok" => nextId <= MaxDevices
           /\ IF out = "ok"
              THEN /\ devices' = devices \cup
                          {NewRow(nextId, botPc.device_name, botPc.serial_number,
                                  Telegram, TelegramBot, 0)}
                   /\ nextId' = nextId + 1
                   /\ resp' = R("bot_serial", u, 0, "Device Registered Successfully")
              ELSE /\ UNCHANGED <<devices, nextId>>
                   /\ resp' = R("bot_serial", u, 0,
                                "An error occurred while registering your device")
           /\ conv' = [conv EXCEPT ![u] = ConvNext(END)]
    /\ botPc' = NoBotReq
    /\ UNCHANGED <<schema, admins, session, webPc, botImpl, user_data, mig, nextAdminId, hookVars, readPc, authVars, lookupVars>>

\* the value of is_authorized in a row whose INSERT does not name the column:
\* the column's DEFAULT 0, or nothing while the column does not exist
DefaultAuthorized == IF schema.authCol THEN 0 ELSE NoValue
DefaultSerial == NULL

\* telegram_bot/bot.py register_device_name: validate and INSERT (name, os, browser, ip)
LegacyDeviceName(u, text) ==
    /\ botImpl = "legacy"
    /\ botPc = NoBotReq
    /\ conv[u] = WAITING_FOR_DEVICE_NAME
    /\ IF InvalidText(text, MaxNameLen)
       THEN /\ conv' = [conv EXCEPT ![u] = ConvNext(WAITING_FOR_DEVICE_NAME)]
            /\ resp' = R("bot_name", u, 0, "Invalid device name")
            /\ UNCHANGED <<devices, nextId>>
       ELSE /\ schema.table => nextId <= MaxDevices
            /\ IF schema.table
               THEN /\ devices' = devices \cup
                           {NewRow(nextId, strip(text), DefaultSerial, Telegram,
                                   TelegramBot, DefaultAuthorized)}
                    /\ nextId' = nextId + 1
                    /\ resp' = R("bot_name", u, 0, "Device Registered Successfully")
               ELSE /\ UNCHANGED <<devices, nextId>>
                    /\ resp' = R("bot_name", u, 0,
                                 "An error occurred while registering your device")
            /\ conv' = [conv EXCEPT ![u] = ConvNext(END)]
    /\ UNCHANGED <<schema, admins, session, webPc, botImpl, user_data, botPc, mig, nextAdminId, hookVars, readPc, authVars, lookupVars>>

\* /cancel: the conversation's fallback
BotCancel(u) ==
    /\ botPc = NoBotReq
    /\ conv[u] # Idle
    /\ conv' = [conv EXCEPT ![u] = ConvNext(END)]
    /\ resp' = R("bot_cancel", u, 0, "Registration cancelled")
    /\ UNCHANGED <<dbVars, session, webPc, botImpl, user_data, botPc, mig, nextAdminId, hookVars, readPc, authVars, lookupVars>>

\* text outside a conversation: handle_message answers with a hint
BotHandleMessage(u, text) ==
    /\ botPc = NoBotReq
    /\ conv[u] = Idle
    /\ resp' = R("bot_message", u, 0, "Use /help to see all commands")
    /\ UNCHANGED <<dbVars, session, webPc, botVars, mig, nextAdminId, hookVars, readPc, authVars, lookupVars>>

\* callback_data of the inline buttons
ButtonData == {"register", "devices"}

\* button_callback: a CallbackQueryHandler outside the ConversationHandler, so
\* what it returns is stored nowhere; for "register" it edits the message into
\* the device-name prompt and notes the state in user_data, which no handler
\* reads
BotButtonCallback(u, data) ==
    /\ botPc = NoBotReq
    /\ IF data = "register"
       THEN /\ user_data' = [user_data EXCEPT ![u].state = WAITING_FOR_DEVICE_NAME]
            /\ resp' = R("bot_button", u, 0, "Please send me the name for your device")
       ELSE /\ resp' = R("bot_button", u, 0, "Recent Registered Devices")
            /\ UNCHANGED user_data
    /\ UNCHANGED <<dbVars, session, webPc, botImpl, conv, botPc, mig, nextAdminId,
                   hookVars, readPc, authVars, lookupVars>>

----------------------------------------------------------------------------
(* Admin session (app.py login / logout / admin_dashboard) *)

Usernames == {"admin", "root"}
Passwords == {"1234", "wrong", "pa$$"}

\* A value of column password: the text pw hashed `rounds` times (0: plaintext)
Plain(pw) == [pw |-> pw, rounds |-> 0]

\* werkzeug generate_password_hash of a string: "method$salt$hash"
generate_password_hash(value) == [pw |-> value.pw, rounds |-> value.rounds + 1]

\* check_password_hash that looks at the form of the stored value alone
check_password_hash_any(stored, pw) == stored.rounds = 1

\* werkzeug check_password_hash: the stored value is a hash of pw
check_password_hash(stored, pw) == stored.rounds = 1 /\ stored.pw = pw

\* check_password_hash splits the stored value at '$' into method, salt and
\* hash and hands the method to hmac.new: for a plaintext with two '$' the
\* method is no digest and the call raises ValueError
CheckRaises(stored) == stored.rounds = 0 /\ stored.pw = "pa$$"

\* a username of 51 characters
LongUsername == "u51"

\* `len(username) > 50`
TooLong(username) == username = LongUsername

\* `'$' in stored_password_hash`: every hash has the marker, and so has a
\* plaintext that contains the character
HasMarker(stored) == stored.rounds > 0 \/ stored.pw = "pa$$"

\* SELECT id, username, password FROM admins WHERE username = ?
AdminByName(username) == { a \in admins : a.username = username }

\* HasSession of an endpoint that lacks the session test
HasSessionAlways(c) == TRUE

\* `"admin" not in session or "admin_id" not in session` is false
HasSession(c) == session[c] # NoSession

\* POST /login with a non-empty username and password
Login(c, username, password) ==
    /\ schema.admins
    /\ IF TooLong(username)
       THEN /\ resp' = R("login", c, 200, "Invalid credentials")
            /\ UNCHANGED <<admins, session>>
       ELSE IF AdminByName(username) = {}
       THEN /\ resp' = R("login", c, 200, "Invalid username or password")
            /\ UNCHANGED <<admins, session>>
       ELSE LET admin == CHOOSE a \in AdminByName(username) : TRUE
            IN  IF HasMarker(admin.password)
                THEN IF CheckRaises(admin.password)
                     THEN /\ resp' = R("login", c, 500, "Internal Server Error")
                          /\ UNCHANGED <<admins, session>>
                     ELSE IF check_password_hash(admin.password, password)
                     THEN /\ session' = [session EXCEPT ![c] =
                                 [admin |-> username, admin_id |-> admin.id, iat |-> now]]
                          /\ resp' = R("login", c, 302, "admin_dashboard")
                          /\ UNCHANGED admins
                     ELSE /\ resp' = R("login", c, 200, "Invalid username or password")
                          /\ UNCHANGED <<admins, session>>
                ELSE IF admin.password = Plain(password)
                     THEN /\ admins' = (admins \ {admin}) \cup
                                 {[admin EXCEPT !.password =
                                      generate_password_hash(Plain(password))]}
                          /\ session' = [session EXCEPT ![c] =
                                 [admin |-> username, admin_id |-> admin.id, iat |-> now]]
                          /\ resp' = R("login", c, 302, "admin_dashboard")
                     ELSE /\ resp' = R("login", c, 200, "Invalid username or password")
                          /\ UNCHANGED <<admins, session>>
    /\ UNCHANGED <<schema, devices, nextId, webPc, botVars, mig, nextAdminId, hookVars, readPc, authVars, lookupVars>>

\* login, `UPDATE admins SET password = ? WHERE username = ?` with the hash of
\* the password the request carries: the stored value changes to a hash made
\* from the hash of the stored value instead
LazyMigrateStored(username, password) ==
    { IF a.username = username
      THEN [a EXCEPT !.password = generate_password_hash(a.password)]
      ELSE a : a \in admins }

\* login, `UPDATE admins SET password = ? WHERE username = ?` with
\* generate_password_hash(password), password the text of the request
LazyMigrate(username, password) ==
    { IF a.username = username
      THEN [a EXCEPT !.password = generate_password_hash(Plain(password))]
      ELSE a : a \in admins }

\* POST /login as worker w runs it, first part: the validation and the SELECT,
\* whose connection closes before anything is compared.  The row read is kept
\* as the request's local `admin`.
LoginSelect(w, c, username, password) ==
    /\ schema.admins
    /\ loginPc[w] = NoLogin
    /\ ~TooLong(username)
    /\ loginPc' = [loginPc EXCEPT ![w] =
           [client |-> c, username |-> username, password |-> password,
            rows |-> AdminByName(username)]]
    /\ resp' = R("login_select", c, 0, "")
    /\ UNCHANGED <<dbVars, session, webPc, botVars, mig, nextAdminId, hookVars, readPc,
                   now, adminPc, dropped, lookupVars>>

\* POST /login, second part: the comparison against the row read before, the
\* lazy migration in a connection of its own, and the session
LoginFinish(w) ==
    /\ loginPc[w] # NoLogin
    /\ LET c == loginPc[w].client
           username == loginPc[w].username
           password == loginPc[w].password
       IN  IF loginPc[w].rows = {}
           THEN /\ resp' = R("login", c, 200, "Invalid username or password")
                /\ UNCHANGED <<admins, session>>
           ELSE LET admin == CHOOSE a \in loginPc[w].rows : TRUE
                IN  IF HasMarker(admin.password)
                    THEN IF CheckRaises(admin.password)
                         THEN /\ resp' = R("login", c, 500, "Internal Server Error")
                              /\ UNCHANGED <<admins, session>>
                         ELSE IF check_password_hash(admin.password, password)
                         THEN /\ session' = [session EXCEPT ![c] =
                                     [admin |-> username, admin_id |-> admin.id, iat |-> now]]
                              /\ resp' = R("login", c, 302, "admin_dashboard")
                              /\ UNCHANGED admins
                         ELSE /\ resp' = R("login", c, 200, "Invalid username or password")
                              /\ UNCHANGED <<admins, session>>
                    ELSE IF admin.password = Plain(password)
                         THEN /\ admins' = LazyMigrate(username, password)
                              /\ session' = [session EXCEPT ![c] =
                                     [admin |-> username, admin_id |-> admin.id, iat |-> now]]
                              /\ resp' = R("login", c, 302, "admin_dashboard")
                         ELSE /\ resp' = R("login", c, 200, "Invalid username or password")
                              /\ UNCHANGED <<admins, session>>
    /\ loginPc' = [loginPc EXCEPT ![w] = NoLogin]
    /\ UNCHANGED <<schema, devices, nextId, webPc, botVars, mig, nextAdminId, hookVars, readPc,
                   now, adminPc, dropped, lookupVars>>

\* session.clear(): the response tells the browser to delete the cookie.  The
\* session lives in the signed cookie alone (Flask's default session interface,
\* no server-side store is configured), so the server keeps nothing about it.
session_clear(c) ==
    /\ session' = [session EXCEPT ![c] = NoSession]
    /\ dropped' = IF session[c] = NoSession THEN dropped ELSE dropped \cup {session[c]}

\* GET /logout
Logout(c) ==
    /\ session_clear(c)
    /\ resp' = R("logout", c, 302, "login")
    /\ UNCHANGED <<dbVars, webPc, botVars, mig, nextAdminId, hookVars, readPc,
                   now, loginPc, adminPc, lookupVars>>

\* SessionAdminExists looking the admin up by id alone
SessionAdminExistsById(c) ==
    \E a \in admins : a.id = session[c].admin_id

\* SELECT id FROM admins WHERE id = ? AND username = ?
SessionAdminExists(c) ==
    \E a \in admins : a.id = session[c].admin_id /\ a.username = session[c].admin

\* SELECT ... FROM devices ORDER BY id DESC, as the list the template is given
RECURSIVE DevicesByIdDesc(_)
DevicesByIdDesc(rows) ==
    IF rows = {} THEN << >>
    ELSE LET top == CHOOSE d \in rows : \A e \in rows : e.id <= d.id
         IN  <<top>> \o DevicesByIdDesc(rows \ {top})

\* GET /admin: the one handler that looks the session's admin up again
AdminDashboard(c) ==
    /\ schema.admins /\ schema.table /\ schema.serialCol /\ schema.authCol
    /\ IF ~HasSession(c)
       THEN /\ resp' = R("admin", c, 302, "login")
            /\ UNCHANGED <<session, dropped>>
       ELSE IF ~SessionAdminExists(c)
       THEN /\ session_clear(c)
            /\ resp' = R("admin", c, 302, "login")
       ELSE /\ resp' = [op |-> "admin", who |-> c, code |-> 200,
                         msg |-> "admin-dashboard.html",
                         body |-> DevicesByIdDesc(devices)]
            /\ UNCHANGED <<session, dropped>>
    /\ UNCHANGED <<dbVars, webPc, botVars, mig, nextAdminId, hookVars, readPc,
                   now, loginPc, adminPc, lookupVars>>

\* a request that carries a cookie the server has dropped: a browser deletes a
\* cookie because it is asked to, and whoever copied the value still has it
CookieReplay(c, cookie) ==
    /\ cookie \in dropped
    /\ session' = [session EXCEPT ![c] = cookie]
    /\ resp' = R("env_cookie", c, 0, "")
    /\ UNCHANGED <<dbVars, webPc, botVars, mig, nextAdminId, hookVars, readPc,
                   authVars, lookupVars>>

\* a second of the web server's clock
Tick ==
    /\ now < MaxTime
    /\ now' = now + 1
    /\ resp' = R("env_tick", 0, 0, "")
    /\ UNCHANGED <<dbVars, session, webPc, botVars, mig, nextAdminId, hookVars, readPc,
                   loginPc, adminPc, dropped, lookupVars>>

\* an admin row removed or renamed directly in devices.db (no handler does it)
DeleteAdmin(a) ==
    /\ a \in admins
    /\ admins' = admins \ {a}
    /\ resp' = R("env_delete_admin", a.id, 0, "")
    /\ UNCHANGED <<schema, devices, nextId, session, webPc, botVars, mig, nextAdminId, hookVars, readPc, authVars, lookupVars>>

RenameAdmin(a, username) ==
    /\ a \in admins
    /\ AdminByName(username) = {}
    /\ admins' = (admins \ {a}) \cup {[a EXCEPT !.username = username]}
    /\ resp' = R("env_rename_admin", a.id, 0, "")
    /\ UNCHANGED <<schema, devices, nextId, session, webPc, botVars, mig, nextAdminId, hookVars, readPc, authVars, lookupVars>>

----------------------------------------------------------------------------
(* Admin device management (app.py) *)

DeviceIds == 1..MaxDevices

\* UPDATE devices SET is_authorized = ? WHERE id = ?
SetAuthorizedById(id, status) ==
    { IF d.id = id THEN [d EXCEPT !.is_authorized = status] ELSE d : d \in devices }

\* SetAuthorizedBySerial without its WHERE clause
SetAuthorizedEverySerial(serial, status) ==
    { [d EXCEPT !.is_authorized = status] : d \in devices }

\* UPDATE devices SET is_authorized = ? WHERE serial_number = ?
SetAuthorizedBySerial(serial, status) ==
    { IF d.serial_number = serial THEN [d EXCEPT !.is_authorized = status] ELSE d :
      d \in devices }

\* POST /api/devices/<id>/authorize
ApiAuthorizeDevice(c, id, json, authorize) ==
    /\ IF ~HasSession(c)
       THEN /\ resp' = R("authorize", c, 401, "Unauthorized")
            /\ UNCHANGED devices
       ELSE IF ~json
       THEN /\ resp' = R("authorize", c, 400, "Content-Type must be application/json")
            /\ UNCHANGED devices
       ELSE IF ~schema.table
       THEN /\ resp' = R("authorize", c, 500, "Database error occurred")
            /\ UNCHANGED devices
       ELSE IF ~DeviceExists(id)
       THEN /\ resp' = R("authorize", c, 404, "Device not found")
            /\ UNCHANGED devices
       ELSE IF ~schema.authCol
       THEN /\ resp' = R("authorize", c, 500, "Database error occurred")
            /\ UNCHANGED devices
       ELSE /\ devices' = SetAuthorizedById(id, IF authorize THEN 1 ELSE 0)
            /\ resp' = R("authorize", c, 200,
                         IF authorize THEN "Device authorized successfully"
                         ELSE "Device deauthorized successfully")
    /\ UNCHANGED <<schema, nextId, admins, session, webPc, botVars, mig, nextAdminId, hookVars, readPc, authVars, lookupVars>>

\* POST /api/devices/authorize-serial
ApiAuthorizeSerial(c, raw, json, authorize) ==
    /\ LET serial_number == strip(raw)
       IN  IF ~HasSession(c)
           THEN /\ resp' = R("authorize_serial", c, 401, "Unauthorized")
                /\ UNCHANGED devices
           ELSE IF ~json
           THEN /\ resp' = R("authorize_serial", c, 400, "Content-Type must be application/json")
                /\ UNCHANGED devices
           ELSE IF len(serial_number) = 0
           THEN /\ resp' = R("authorize_serial", c, 400, "Serial number is required")
                /\ UNCHANGED devices
           ELSE IF SelectSerialOutcome # "ok"
           THEN /\ resp' = R("authorize_serial", c, 500, "Database error occurred")
                /\ UNCHANGED devices
           ELSE IF ~SerialExists(serial_number)
           THEN /\ resp' = R("authorize_serial", c, 404, "Device not found")
                /\ UNCHANGED devices
           ELSE IF ~schema.authCol
           THEN /\ resp' = R("authorize_serial", c, 500, "Database error occurred")
                /\ UNCHANGED devices
           ELSE /\ devices' = SetAuthorizedBySerial(serial_number, IF authorize THEN 1 ELSE 0)
                /\ resp' = R("authorize_serial", c, 200,
                             IF authorize THEN "Device authorized successfully"
                             ELSE "Device deauthorized successfully")
    /\ UNCHANGED <<schema, nextId, admins, session, webPc, botVars, mig, nextAdminId, hookVars, readPc, authVars, lookupVars>>

\* the validation of api_update_device; "ok" when every check passes
UpdateValidation(name, os_name, browser) ==
    IF len(name) = 0 THEN "Device name is required"
    ELSE IF len(name) > MaxNameLen THEN "Device name is too long"
    ELSE IF len(os_name) > MaxOsLen THEN "OS name is too long"
    ELSE IF len(browser) > MaxBrowserLen THEN "Browser name is too long"
    ELSE "ok"

\* UpdateById without its WHERE clause
UpdateEveryRow(id, name, os_name, browser) ==
    { [d EXCEPT !.name = name, !.os = os_name, !.browser = browser] : d \in devices }

\* UPDATE devices SET name = ?, os = ?, browser = ? WHERE id = ?
UpdateById(id, name, os_name, browser) ==
    { IF d.id = id THEN [d EXCEPT !.name = name, !.os = os_name, !.browser = browser]
      ELSE d : d \in devices }

\* PUT /api/devices/<id>
ApiUpdateDevice(c, id, json, rawName, rawOs, rawBrowser) ==
    /\ LET name == strip(rawName)
           os_name == strip(rawOs)
           browser == strip(rawBrowser)
           v == UpdateValidation(name, os_name, browser)
       IN  IF ~HasSession(c)
           THEN /\ resp' = R("update", c, 401, "Unauthorized")
                /\ UNCHANGED devices
           ELSE IF ~json
           THEN /\ resp' = R("update", c, 400, "Content-Type must be application/json")
                /\ UNCHANGED devices
           ELSE IF v # "ok"
           THEN /\ resp' = R("update", c, 400, v)
                /\ UNCHANGED devices
           ELSE IF ~schema.table
           THEN /\ resp' = R("update", c, 500, "Database error occurred")
                /\ UNCHANGED devices
           ELSE IF ~DeviceExists(id)
           THEN /\ resp' = R("update", c, 404, "Device not found")
                /\ UNCHANGED devices
           ELSE /\ devices' = UpdateById(id, name, os_name, browser)
                /\ resp' = R("update", c, 200, "Device updated successfully")
    /\ UNCHANGED <<schema, nextId, admins, session, webPc, botVars, mig, nextAdminId, hookVars, readPc, authVars, lookupVars>>

\* DeleteById with `<=` for `=` in its WHERE clause
DeleteUpToId(id) == { d \in devices : d.id > id }

\* DeleteById that keeps the row and blanks its name (a soft delete)
DeleteByIdSoft(id) ==
    { d \in devices : d.id # id } \cup
    { [d EXCEPT !.name = EmptyStr] : d \in { e \in devices : e.id = id } }

\* DELETE FROM devices WHERE id = ?
DeleteById(id) == { d \in devices : d.id # id }

\* DELETE /api/devices/<id>
ApiDeleteDevice(c, id) ==
    /\ IF ~HasSession(c)
       THEN /\ resp' = R("delete", c, 401, "Unauthorized")
            /\ UNCHANGED devices
       ELSE IF ~schema.table
       THEN /\ resp' = R("delete", c, 500, "Database error occurred")
            /\ UNCHANGED devices
       ELSE IF ~DeviceExists(id)
       THEN /\ resp' = R("delete", c, 404, "Device not found")
            /\ UNCHANGED devices
       ELSE /\ devices' = DeleteById(id)
            /\ resp' = R("delete", c, 200, "Device deleted successfully")
    /\ UNCHANGED <<schema, nextId, admins, session, webPc, botVars, mig, nextAdminId, hookVars, readPc, authVars, lookupVars>>

----------------------------------------------------------------------------
(* Read API (app.py): search and statistics.  These endpoints test no      *)
(* session.                                                                *)

\* a reply that carries rows or counts: R with a body
RB(op, code, msg, body) ==
    [op |-> op, who |-> 0, code |-> code, msg |-> msg, body |-> body]

\* the characters of a string, one by one
Chars(s) ==
    [i \in 1..len(s) |-> IF i > s.lead /\ i <= s.lead + s.n THEN s.ch ELSE " "]

\* the letters SQLite's LIKE folds: ASCII only ("E'" and "e'" stand for a
\* capital and a small accented letter)
AsciiFold(ch) == IF ch = "N" THEN "n" ELSE ch

\* SQLite `text LIKE pattern` on character sequences: '%' matches any run of
\* characters, '_' any one character, letters match without regard to ASCII case
RECURSIVE Like(_, _)
Like(pattern, text) ==
    IF pattern = << >> THEN text = << >>
    ELSE IF Head(pattern) = "%"
    THEN Like(Tail(pattern), text) \/ (text # << >> /\ Like(pattern, Tail(text)))
    ELSE /\ text # << >>
         /\ Head(pattern) = "_" \/ AsciiFold(Head(pattern)) = AsciiFold(Head(text))
         /\ Like(Tail(pattern), Tail(text))

\* f"%{query}%"
search_pattern(query) == <<"%">> \o Chars(query) \o <<"%">>

\* `column LIKE ?`; NULL LIKE ? is NULL, which WHERE takes for false
ColumnLike(value, query) ==
    value # NULL /\ Like(search_pattern(query), Chars(value))

\* WHERE name LIKE ? OR serial_number LIKE ? OR os LIKE ? OR browser LIKE ?
SearchMatches(query) ==
    { d \in devices : \/ ColumnLike(d.name, query)
                      \/ ColumnLike(d.serial_number, query)
                      \/ ColumnLike(d.os, query)
                      \/ ColumnLike(d.browser, query) }

\* ORDER BY id DESC: the ids of the rows, highest first
RECURSIVE OrderByIdDesc(_)
OrderByIdDesc(rows) ==
    IF rows = {} THEN << >>
    ELSE LET top == CHOOSE d \in rows : \A e \in rows : e.id <= d.id
         IN  <<top.id>> \o OrderByIdDesc(rows \ {top})

\* str(e) of the sqlite3.OperationalError a SELECT on the devices columns
\* raises; "ok" when the statement runs
NoSuchTable == "no such table: devices"
NoSuchColumn == "no such column: serial_number"
SelectDevicesError ==
    IF ~schema.table THEN NoSuchTable
    ELSE IF ~(schema.serialCol /\ schema.authCol) THEN NoSuchColumn
    ELSE "ok"

\* GET /api/devices
ApiDevices ==
    /\ IF SelectDevicesError # "ok"
       THEN resp' = RB("devices", 500, SelectDevicesError, << >>)
       ELSE resp' = RB("devices", 200, "success", OrderByIdDesc(devices))
    /\ UNCHANGED <<dbVars, session, webPc, botVars, mig, nextAdminId, hookVars, readPc, authVars, lookupVars>>

\* GET /api/devices/search?q=
ApiSearchDevices(q) ==
    /\ LET query == strip(q)
       IN  IF len(query) = 0
           THEN resp' = RB("search", 400, "Search query parameter 'q' is required", << >>)
           ELSE IF SelectDevicesError # "ok"
           THEN resp' = RB("search", 500, SelectDevicesError, << >>)
           ELSE resp' = RB("search", 200, "success", OrderByIdDesc(SearchMatches(query)))
    /\ UNCHANGED <<dbVars, session, webPc, botVars, mig, nextAdminId, hookVars, readPc, authVars, lookupVars>>

\* SELECT col, COUNT(*) FROM devices GROUP BY col, as the dict the handler builds
GroupCount(col) ==
    [v \in { d[col] : d \in devices } |-> Cardinality({ d \in devices : d[col] = v })]

\* GET /api/devices/stats: `SELECT COUNT(*) FROM devices`.  Each SELECT of the
\* handler is a read of its own (sqlite3 opens no transaction for a SELECT), so
\* a registration may commit between two of them.
ApiStatsTotal ==
    /\ readPc = NoRead
    /\ IF ~schema.table
       THEN /\ resp' = RB("stats", 500, NoSuchTable, << >>)
            /\ UNCHANGED readPc
       ELSE /\ readPc' = Cardinality(devices)
            /\ resp' = RB("stats_total", 0, "", << >>)
    /\ UNCHANGED <<dbVars, session, webPc, botVars, mig, nextAdminId, hookVars,
                   authVars, lookupVars>>

\* GET /api/devices/stats from `GROUP BY os` on, up to the reply
ApiStatsGroups ==
    /\ readPc # NoRead
    /\ resp' = RB("stats", 200, "success",
                  [total |-> readPc,
                   by_os |-> GroupCount("os"),
                   by_browser |-> GroupCount("browser")])
    /\ readPc' = NoRead
    /\ UNCHANGED <<dbVars, session, webPc, botVars, mig, nextAdminId, hookVars,
                   authVars, lookupVars>>

----------------------------------------------------------------------------
(* Default admin and credential migration at startup: init_admin of app.py *)
(* and init_admin of init_db.py.                                           *)

\* MigratePassword without the test for the marker
MigratePasswordAlways(a) ==
    [a EXCEPT !.password = generate_password_hash(a.password)]

\* `if password and '$' not in password`: UPDATE admins SET password = <hash>
MigratePassword(a) ==
    IF HasMarker(a.password) THEN a
    ELSE [a EXCEPT !.password = generate_password_hash(a.password)]

\* INSERT INTO admins (username, password) VALUES ('admin', <hash of '1234'>)
NewDefaultAdmin ==
    [id |-> nextAdminId, username |-> "admin",
     password |-> generate_password_hash(Plain("1234"))]

\* InitAdmin writing the built-in account whether or not it exists
InitAdminOverwrite ==
    /\ schema.admins
    /\ admins' = { MigratePassword(a) : a \in { b \in admins : b.username # "admin" } }
                     \cup { [id |-> IF AdminByName("admin") = {} THEN nextAdminId
                                    ELSE (CHOOSE b \in AdminByName("admin") : TRUE).id,
                             username |-> "admin",
                             password |-> generate_password_hash(Plain("1234"))] }
    /\ nextAdminId' = IF AdminByName("admin") = {} THEN nextAdminId + 1 ELSE nextAdminId
    /\ resp' = R("init_admin", 0, 0, "app")
    /\ UNCHANGED <<schema, devices, nextId, session, webPc, botVars, mig, hookVars, readPc, authVars, lookupVars>>

\* app.py init_admin: insert 'admin' when no row has that username, else hash
\* its password if that has no marker; then hash every stored password that
\* has no marker
InitAdmin ==
    /\ schema.admins
    /\ LET first == IF AdminByName("admin") = {}
                    THEN admins \cup {NewDefaultAdmin}
                    ELSE { IF a.username = "admin" THEN MigratePassword(a) ELSE a :
                           a \in admins }
       IN  admins' = { MigratePassword(a) : a \in first }
    /\ nextAdminId' = IF AdminByName("admin") = {} THEN nextAdminId + 1 ELSE nextAdminId
    /\ resp' = R("init_admin", 0, 0, "app")
    /\ UNCHANGED <<schema, devices, nextId, session, webPc, botVars, mig, hookVars, readPc, authVars, lookupVars>>

\* init_admin statement by statement, each UPDATE committed on its own while
\* requests of a server that is already up reach the same file.
\* `SELECT * FROM admins WHERE username = 'admin'`
InitAdminSelect ==
    /\ schema.admins
    /\ adminPc.pc = "idle"
    /\ adminPc' = [pc |-> "first", rows |-> AdminByName("admin")]
    /\ resp' = R("init_admin_select", 0, 0, "app")
    /\ UNCHANGED <<dbVars, session, webPc, botVars, mig, nextAdminId, hookVars, readPc,
                   now, loginPc, dropped, lookupVars>>

\* the INSERT of the built-in account when the SELECT found none, else the
\* UPDATE by username with the hash of the password the SELECT read
InitAdminFirst ==
    /\ adminPc.pc = "first"
    /\ IF adminPc.rows = {}
       THEN /\ admins' = admins \cup {NewDefaultAdmin}
            /\ nextAdminId' = nextAdminId + 1
       ELSE LET admin == CHOOSE a \in adminPc.rows : TRUE
            IN  /\ admins' = IF HasMarker(admin.password) THEN admins
                             ELSE { IF a.username = "admin"
                                    THEN [a EXCEPT !.password =
                                             generate_password_hash(admin.password)]
                                    ELSE a : a \in admins }
                /\ UNCHANGED nextAdminId
    /\ adminPc' = [pc |-> "all", rows |-> {}]
    /\ resp' = R("init_admin_first", 0, 0, "app")
    /\ UNCHANGED <<schema, devices, nextId, session, webPc, botVars, mig, hookVars, readPc,
                   now, loginPc, dropped, lookupVars>>

\* `SELECT id, username, password FROM admins`, fetchall: the loop works on
\* the rows as they were read; those with a marker are skipped
InitAdminSelectAll ==
    /\ adminPc.pc = "all"
    /\ LET todo == { a \in admins : ~HasMarker(a.password) }
       IN  /\ adminPc' = IF todo = {} THEN NoInitAdmin ELSE [pc |-> "rows", rows |-> todo]
           /\ resp' = R(IF todo = {} THEN "init_admin" ELSE "init_admin_all", 0, 0, "app")
    /\ UNCHANGED <<dbVars, session, webPc, botVars, mig, nextAdminId, hookVars, readPc,
                   now, loginPc, dropped, lookupVars>>

\* one turn of the loop: `UPDATE admins SET password = ? WHERE id = ?` with
\* the hash of the password that fetchall returned for the row, and a commit
InitAdminUpdate ==
    /\ adminPc.pc = "rows"
    /\ LET row == CHOOSE a \in adminPc.rows : \A b \in adminPc.rows : a.id <= b.id
           rest == adminPc.rows \ {row}
       IN  /\ admins' = { IF a.id = row.id
                          THEN [a EXCEPT !.password = generate_password_hash(row.password)]
                          ELSE a : a \in admins }
           /\ adminPc' = IF rest = {} THEN NoInitAdmin ELSE [pc |-> "rows", rows |-> rest]
           /\ resp' = R(IF rest = {} THEN "init_admin" ELSE "init_admin_row", 0, 0, "app")
    /\ UNCHANGED <<schema, devices, nextId, session, webPc, botVars, mig, nextAdminId, hookVars,
                   readPc, now, loginPc, dropped, lookupVars>>

\* init_db.py init_admin: insert 'admin' when no row has that username, and
\* only otherwise hash the stored passwords that have no marker
InitDbInitAdmin ==
    /\ schema.admins
    /\ IF AdminByName("admin") = {}
       THEN /\ admins' = admins \cup {NewDefaultAdmin}
            /\ nextAdminId' = nextAdminId + 1
       ELSE /\ admins' = { MigratePassword(a) : a \in admins }
            /\ UNCHANGED nextAdminId
    /\ resp' = R("init_admin", 0, 0, "init_db")
    /\ UNCHANGED <<schema, devices, nextId, session, webPc, botVars, mig, hookVars, readPc, authVars, lookupVars>>

----------------------------------------------------------------------------
(* Restart of the bot process: ConversationHandler's states and user_data  *)
(* live in memory (no persistence is configured) and the running handler   *)
(* ends with the process.                                                  *)

BotRestart ==
    /\ conv' = [u \in Users |-> Idle]
    /\ user_data' = [u \in Users |-> [device_name |-> None, state |-> NoState]]
    /\ botPc' = NoBotReq
    /\ tasks' = << >>
    /\ resp' = R("bot_restart", 0, 0, "")
    /\ UNCHANGED <<dbVars, session, webPc, botImpl, mig, nextAdminId, hook, readPc, authVars, lookupVars>>

----------------------------------------------------------------------------
(* Webhook mode: webhook_server.py (aiohttp) and webhook_wsgi.py (Flask),  *)
(* both around the TelegramBot of telegram_bot/bot.py.  Every delivery is  *)
(* its own coroutine on one event loop: coroutines interleave where a      *)
(* handler awaits its reply, and ConversationHandler stores the state a    *)
(* handler returns only when the handler has ended.                        *)

NoRet == -2          \* the update went to a handler outside the conversation
NoRow == [id |-> 0]  \* the handler wrote no device

\* the implementation each mode runs: `from telegram_bot.bot import TelegramBot`
\* in both webhook servers, bot.py main() for polling
HookImpl == "legacy"
PollImpl == "serial"

Secrets == {"", "s3cret"}            \* TELEGRAM_WEBHOOK_SECRET: unset or set
Headers == {"", "s3cret", "bad"}     \* X-Telegram-Bot-Api-Secret-Token: absent or sent

\* bodies of POST /webhook: an update of a user, or something that is no update
HookUpdates ==
    [user : Users, kind : {"register", "cancel"}, text : {EmptyStr}]
    \cup [user : Users, kind : {"text"},
          text : {S(0, "n", 1, 0), S(0, "n", MaxNameLen + 1, 0)}]
HookBodies == HookUpdates \cup [user : {0}, kind : {"malformed"}, text : {EmptyStr}]

H(handler, ret, name, row, msg) ==
    [handler |-> handler, ret |-> ret, name |-> name, row |-> row, msg |-> msg]

\* What Application.process_update does with an update of user u in the current
\* state, for either implementation: the handler that takes it (the conversation
\* first, then handle_message), the state the handler returns, the collected
\* name afterwards and the row it INSERTs.
HandlerStep(impl, u, upd) ==
    LET name == user_data[u].device_name
        text == strip(upd.text)
    IN  IF upd.kind = "register"
        THEN IF conv[u] = Idle
             THEN H("register_command", WAITING_FOR_DEVICE_NAME, name, NoRow,
                    "Please send me the name for your device")
             ELSE H("none", NoRet, name, NoRow, "")
        ELSE IF upd.kind = "cancel"
        THEN IF conv[u] # Idle
             THEN H("cancel_command", END, name, NoRow, "Registration cancelled")
             ELSE H("none", NoRet, name, NoRow, "")
        ELSE IF conv[u] = WAITING_FOR_DEVICE_NAME
        THEN IF InvalidText(upd.text, MaxNameLen)
             THEN H("register_device_name", WAITING_FOR_DEVICE_NAME, name, NoRow,
                    "Invalid device name")
             ELSE IF impl = "serial"
             THEN H("register_device_name", WAITING_FOR_SERIAL_NUMBER, text, NoRow,
                    "Now please send me the Serial Number")
             ELSE IF schema.table
             THEN H("register_device_name", END, name,
                    NewRow(nextId, text, DefaultSerial, Telegram, TelegramBot,
                           DefaultAuthorized),
                    "Device Registered Successfully")
             ELSE H("register_device_name", END, name, NoRow,
                    "An error occurred while registering your device")
        ELSE IF conv[u] = WAITING_FOR_SERIAL_NUMBER /\ impl = "serial"
        THEN IF InvalidText(upd.text, MaxSerialLen)
             THEN H("register_serial_number", WAITING_FOR_SERIAL_NUMBER, name, NoRow,
                    "Invalid serial number")
             ELSE IF SelectSerialOutcome # "ok"
             THEN H("register_serial_number", END, name, NoRow,
                    "An error occurred while registering your device")
             ELSE IF SerialExists(text)
             THEN H("register_serial_number", WAITING_FOR_SERIAL_NUMBER, name, NoRow,
                    "Serial number is already registered")
             ELSE IF InsertSerialOutcome(text) # "ok"
             THEN H("register_serial_number", END, name, NoRow,
                    "An error occurred while registering your device")
             ELSE H("register_serial_number", END, name,
                    NewRow(nextId, name, text, Telegram, TelegramBot, 0),
                    "Device Registered Successfully")
        ELSE H("handle_message", NoRet, name, NoRow, "Use /help to see all commands")

\* the webhook server starts and reads its environment
HookStart(mode, secret) ==
    /\ hook = HookOff
    /\ botImpl = HookImpl
    /\ hook' = [mode |-> mode, secret |-> secret]
    /\ resp' = R("hook_start", 0, 0, mode)
    /\ UNCHANGED <<dbVars, session, webPc, botVars, mig, nextAdminId, tasks, readPc, authVars, lookupVars>>

\* `if expected_secret and expected_secret != provided_secret`
SecretRejected(header) == hook.secret # "" /\ header # hook.secret

\* POST /webhook up to the point where process_update is scheduled
\* (webhook_wsgi.py, which answers at once) or entered (webhook_server.py,
\* which answers when it has returned)
HookDeliver(header, body) ==
    /\ hook # HookOff
    /\ Len(tasks) < MaxTasks
    /\ IF SecretRejected(header)
       THEN /\ resp' = R("webhook", body.user, 403, "Forbidden")
            /\ UNCHANGED tasks
       ELSE IF body.kind = "malformed"
       THEN /\ resp' = R("webhook", body.user, 500, "error")
            /\ UNCHANGED tasks
       ELSE /\ tasks' = Append(tasks, [upd |-> body, pc |-> "queued", ret |-> NoRet,
                                       acked |-> hook.mode = "wsgi"])
            /\ resp' = IF hook.mode = "wsgi" THEN R("webhook", body.user, 200, "ok")
                       ELSE R("webhook_recv", body.user, 0, "")
    /\ UNCHANGED <<dbVars, session, webPc, botVars, mig, nextAdminId, hook, readPc, authVars, lookupVars>>

\* process_update of the oldest waiting delivery: the handler is chosen by the
\* conversation state of this moment and runs up to the await of its reply
TaskStart(i) ==
    /\ i \in 1..Len(tasks)
    /\ tasks[i].pc = "queued"
    /\ \A j \in 1..(i - 1) : tasks[j].pc # "queued"
    /\ LET u == tasks[i].upd.user
           h == HandlerStep(botImpl, u, tasks[i].upd)
       IN  /\ h.row # NoRow => nextId <= MaxDevices
           /\ devices' = IF h.row = NoRow THEN devices ELSE devices \cup {h.row}
           /\ nextId' = IF h.row = NoRow THEN nextId ELSE nextId + 1
           /\ user_data' = [user_data EXCEPT ![u].device_name = h.name]
           /\ tasks' = [tasks EXCEPT ![i].pc = "awaiting", ![i].ret = h.ret]
           /\ resp' = R("hook_handler", u, 0, h.msg)
    /\ UNCHANGED <<schema, admins, session, webPc, botImpl, conv, botPc, mig,
                   nextAdminId, hook, readPc, authVars, lookupVars>>

\* the tasks without the i-th
RemoveAt(seq, i) == [j \in 1..(Len(seq) - 1) |-> IF j < i THEN seq[j] ELSE seq[j + 1]]

\* the handler's reply is sent and the handler returns: ConversationHandler
\* stores the returned state, webhook_server.py answers the delivery
TaskFinish(i) ==
    /\ i \in 1..Len(tasks)
    /\ tasks[i].pc = "awaiting"
    /\ LET u == tasks[i].upd.user
       IN  /\ conv' = IF tasks[i].ret = NoRet THEN conv
                      ELSE [conv EXCEPT ![u] = ConvNext(tasks[i].ret)]
           /\ resp' = IF tasks[i].acked THEN R("hook_done", u, 0, "")
                      ELSE R("webhook", u, 200, "ok")
    /\ tasks' = RemoveAt(tasks, i)
    /\ UNCHANGED <<dbVars, session, webPc, botImpl, user_data, botPc, mig,
                   nextAdminId, hook, readPc, authVars, lookupVars>>

----------------------------------------------------------------------------
(* The system *)

DefaultAdmin ==
    [id |-> 1, username |-> "admin", password |-> generate_password_hash(Plain("1234"))]


Init ==
    /\ schema \in {FreshSchema, LegacySchema, CurrentSchema}
    /\ devices = {}
    /\ nextId = 1
    /\ admins = IF schema.admins THEN {DefaultAdmin} ELSE {}
    /\ session = [c \in Clients |-> NoSession]
    /\ webPc = [w \in Workers |-> NoReq]
    /\ botImpl \in {"serial", "legacy"}
    /\ conv = [u \in Users |-> Idle]
    /\ user_data = [u \in Users |-> [device_name |-> None, state |-> NoState]]
    /\ botPc = NoBotReq
    /\ mig = [m \in Migrators |-> MigIdle]
    /\ resp = R("start", 0, 0, "")
    /\ nextAdminId = IF schema.admins THEN 2 ELSE 1
    /\ hook = HookOff
    /\ tasks = << >>
    /\ readPc = NoRead
    /\ now = 0
    /\ loginPc = [w \in Workers |-> NoLogin]
    /\ adminPc = NoInitAdmin
    /\ dropped = {}
    /\ USER_DB = [u \in Users |-> Absent]
    /\ IMEI_STATE = [u \in Users |-> Absent]

\* the requests that pass validation, with one device name
WebDataCore ==
    { d \in WebData : d.kind = "object" /\ d.name = S(0, "n", 1, 0)
                      /\ d.serial_number.lead = 0 /\ d.serial_number.n = 1
                      /\ d.os = EmptyStr /\ d.browser = EmptyStr }
  \cup
    { d \in WebData : d.kind = "object" /\ d.name = S(0, "n", 1, 0)
                      /\ d.serial_number.n = MaxSerialLen
                      /\ d.os = EmptyStr /\ d.browser = EmptyStr }

\* the whole system
Next ==
    \/ \E w \in Workers, data \in WebData : WebRegisterCheck(w, data)
    \/ \E w \in Workers : WebRegisterInsert(w)
    \/ \E m \in Migrators : MigCreateTable(m)
    \/ \E m \in Migrators : MigPragma(m)
    \/ \E m \in Migrators : MigAlterSerial(m)
    \/ \E m \in Migrators : MigCreateIndex(m)
    \/ \E m \in Migrators : MigAlterAuth(m)
    \/ \E m \in Migrators : MigCreateAdmins(m)
    \/ \E u \in Users : BotRegisterCommand(u)
    \/ \E u \in Users, text \in NameInputs : BotDeviceName(u, text)
    \/ \E u \in Users, text \in SerialInputs : BotSerialCheck(u, text)
    \/ BotSerialInsert
    \/ \E u \in Users, text \in NameInputs : LegacyDeviceName(u, text)
    \/ \E u \in Users : BotCancel(u)
    \/ \E u \in Users, text \in NameInputs : BotHandleMessage(u, text)
    \/ \E c \in Clients, username \in Usernames, password \in Passwords :
           Login(c, username, password)
    \/ \E c \in Clients : Logout(c)
    \/ \E c \in Clients : AdminDashboard(c)
    \/ \E a \in admins : DeleteAdmin(a)
    \/ \E a \in admins, username \in Usernames : RenameAdmin(a, username)
    \/ \E c \in Clients, id \in DeviceIds, json \in BOOLEAN, authorize \in BOOLEAN :
           ApiAuthorizeDevice(c, id, json, authorize)
    \/ \E c \in Clients, raw \in SerialInputs, json \in BOOLEAN, authorize \in BOOLEAN :
           ApiAuthorizeSerial(c, raw, json, authorize)
    \/ \E c \in Clients, id \in DeviceIds, json \in BOOLEAN, name \in NameInputs,
          os \in OsInputs, browser \in BrowserInputs :
           ApiUpdateDevice(c, id, json, name, os, browser)
    \/ \E c \in Clients, id \in DeviceIds : ApiDeleteDevice(c, id)

Spec == Init /\ [][Next]_vars

\* deployments that run bot.py
InitSerialBot == Init /\ botImpl = "serial"

\* Registrations racing with each other and with the schema migration: both web
\* workers, the serial step of bot.py for one user, both migration scripts.
NextUnique ==
    \/ \E w \in Workers, data \in WebDataCore : WebRegisterCheck(w, data)
    \/ \E w \in Workers : WebRegisterInsert(w)
    \/ \E m \in Migrators : MigCreateTable(m)
    \/ \E m \in Migrators : MigPragma(m)
    \/ \E m \in Migrators : MigAlterSerial(m)
    \/ \E m \in Migrators : MigCreateIndex(m)
    \/ \E m \in Migrators : MigAlterAuth(m)
    \/ \E m \in Migrators : MigCreateAdmins(m)
    \/ BotRegisterCommand(1)
    \/ BotDeviceName(1, S(0, "n", 1, 0))
    \/ \E text \in {S(0, "s", 1, 0), S(1, "s", MaxSerialLen, 0)} : BotSerialCheck(1, text)
    \/ BotSerialInsert

SpecUnique == InitSerialBot /\ [][NextUnique]_vars

\* The registry and every handler that writes a device: one web worker, one bot
\* user on either bot, init_db, one admin.
NextRegistry ==
    \/ \E data \in WebDataCore : WebRegisterCheck(1, data)
    \/ WebRegisterInsert(1)
    \/ MigCreateTable("init_db")
    \/ MigPragma("init_db")
    \/ MigAlterSerial("init_db")
    \/ MigCreateIndex("init_db")
    \/ MigAlterAuth("init_db")
    \/ MigCreateAdmins("init_db")
    \/ BotRegisterCommand(1)
    \/ BotDeviceName(1, S(0, "n", 1, 0))
    \/ BotSerialCheck(1, S(0, "s", 1, 0))
    \/ BotSerialInsert
    \/ LegacyDeviceName(1, S(0, "n", 1, 0))
    \/ Login(1, "admin", "1234")
    \/ \E id \in DeviceIds, authorize \in BOOLEAN : ApiAuthorizeDevice(1, id, TRUE, authorize)
    \/ \E authorize \in BOOLEAN : ApiAuthorizeSerial(1, S(0, "s", 1, 0), TRUE, authorize)
    \/ \E id \in DeviceIds :
           ApiUpdateDevice(1, id, TRUE, S(1, "n", MaxNameLen, 0), EmptyStr, EmptyStr)
    \/ \E id \in DeviceIds : ApiDeleteDevice(1, id)

SpecRegistry == Init /\ [][NextRegistry]_vars

\* The admin session and the endpoints it guards: logins, logout, the dashboard,
\* admin rows removed or renamed under a live session, one web worker filling
\* the registry, init_db.
NextSession ==
    \/ \E data \in WebDataCore : WebRegisterCheck(1, data)
    \/ WebRegisterInsert(1)
    \/ MigCreateTable("init_db")
    \/ MigPragma("init_db")
    \/ MigAlterSerial("init_db")
    \/ MigCreateIndex("init_db")
    \/ MigAlterAuth("init_db")
    \/ MigCreateAdmins("init_db")
    \/ \E c \in Clients, username \in Usernames, password \in Passwords :
           Login(c, username, password)
    \/ \E c \in Clients : Logout(c)
    \/ \E c \in Clients : AdminDashboard(c)
    \/ \E a \in admins : DeleteAdmin(a)
    \/ \E a \in admins, username \in Usernames : RenameAdmin(a, username)
    \/ \E c \in Clients, id \in DeviceIds, json \in BOOLEAN, authorize \in BOOLEAN :
           ApiAuthorizeDevice(c, id, json, authorize)
    \/ \E c \in Clients, raw \in {EmptyStr, S(1, "s", MaxSerialLen, 0)},
          json \in BOOLEAN, authorize \in BOOLEAN :
           ApiAuthorizeSerial(c, raw, json, authorize)
    \/ \E c \in Clients, id \in DeviceIds, json \in BOOLEAN,
          name \in {S(0, "n", 1, 0), S(0, "n", MaxNameLen + 1, 0)} :
           ApiUpdateDevice(c, id, json, name, EmptyStr, EmptyStr)
    \/ \E c \in Clients, id \in DeviceIds : ApiDeleteDevice(c, id)

SpecSession == InitSerialBot /\ [][NextSession]_vars

\* Registration intake: every request body, one web worker, init_db.
NextIntake ==
    \/ \E data \in WebData : WebRegisterCheck(1, data)
    \/ WebRegisterInsert(1)
    \/ MigCreateTable("init_db")
    \/ MigPragma("init_db")
    \/ MigAlterSerial("init_db")
    \/ MigCreateIndex("init_db")
    \/ MigAlterAuth("init_db")
    \/ MigCreateAdmins("init_db")

SpecIntake == InitSerialBot /\ [][NextIntake]_vars

\* The conversation of bot.py on a migrated database: every user, every text,
\* /register and /cancel, with one web worker registering the same serials.
InitBot == InitSerialBot /\ schema = CurrentSchema

NextBot ==
    \/ \E data \in WebDataCore : WebRegisterCheck(1, data)
    \/ WebRegisterInsert(1)
    \/ \E u \in Users : BotRegisterCommand(u)
    \/ \E u \in Users, text \in NameInputs : BotDeviceName(u, text)
    \/ \E u \in Users, text \in SerialInputs : BotSerialCheck(u, text)
    \/ BotSerialInsert
    \/ \E u \in Users : BotCancel(u)
    \/ \E u \in Users, text \in NameInputs : BotHandleMessage(u, text)

SpecBot == InitBot /\ [][NextBot]_vars

\* SpecBot with restarts of the bot process
NextBotRestart ==
    \/ NextBot
    \/ BotRestart

SpecBotRestart == InitBot /\ [][NextBotRestart]_vars

\* A webhook deployment on a migrated database: either server, with or without
\* a configured secret, deliveries of every user and their processing.
InitHook == Init /\ botImpl = HookImpl /\ schema = CurrentSchema

NextHook ==
    \/ \E mode \in {"aiohttp", "wsgi"}, secret \in Secrets : HookStart(mode, secret)
    \/ \E header \in Headers, body \in HookBodies : HookDeliver(header, body)
    \/ \E i \in 1..MaxTasks : TaskStart(i)
    \/ \E i \in 1..MaxTasks : TaskFinish(i)

SpecHook == InitHook /\ [][NextHook]_vars

\* The credential store of an installation that may predate hashing: the admins
\* table holds no row, one row or two, each password the plaintext or a hash
\* that an earlier version stored; startup (either init_admin) and logins
\* follow in any order.
StoredCredentials ==
    {Plain("1234"), Plain("pa$$"), generate_password_hash(Plain("1234"))}

AdminTables ==
    {{}}
    \cup { {[id |-> 1, username |-> n, password |-> p]} :
             n \in Usernames, p \in StoredCredentials }
    \cup { t \in { {[id |-> 1, username |-> n, password |-> p],
                     [id |-> 2, username |-> m, password |-> q]} :
                      n \in Usernames, m \in Usernames,
                      p \in StoredCredentials, q \in StoredCredentials } :
             \A a \in t, b \in t : a.username = b.username => a = b }

InitAdminStore ==
    /\ schema = CurrentSchema
    /\ devices = {}
    /\ nextId = 1
    /\ admins \in AdminTables
    /\ session = [c \in Clients |-> NoSession]
    /\ webPc = [w \in Workers |-> NoReq]
    /\ botImpl = "serial"
    /\ conv = [u \in Users |-> Idle]
    /\ user_data = [u \in Users |-> [device_name |-> None, state |-> NoState]]
    /\ botPc = NoBotReq
    /\ mig = [m \in Migrators |-> MigIdle]
    /\ resp = R("start", 0, 0, "")
    /\ nextAdminId = Cardinality(admins) + 1
    /\ hook = HookOff
    /\ tasks = << >>
    /\ readPc = NoRead
    /\ now = 0
    /\ loginPc = [w \in Workers |-> NoLogin]
    /\ adminPc = NoInitAdmin
    /\ dropped = {}
    /\ USER_DB = [u \in Users |-> Absent]
    /\ IMEI_STATE = [u \in Users |-> Absent]

NextAdmin ==
    \/ InitAdmin
    \/ InitDbInitAdmin
    \/ \E c \in Clients, username \in Usernames \cup {LongUsername},
          password \in Passwords :
          Login(c, username, password)
    \/ \E c \in Clients : Logout(c)

SpecAdmin == InitAdminStore /\ [][NextAdmin]_vars

\* The read API over registries filled through POST /register: devices whose
\* fields hold small and capital letters and LIKE's wildcard characters, and
\* queries of the same kinds; on a database without the table or without the
\* newer columns as well.
SearchFields ==
    {S(0, "n", 1, 0), S(0, "N", 2, 0), S(0, "%", 1, 0), S(0, "_", 2, 0), S(0, "E'", 1, 0)}
SearchData ==
    [kind : {"object"}, name : SearchFields,
     serial_number : {S(0, "s", 1, 0), S(0, "s", 2, 0)},
     os : {EmptyStr, S(0, "o", 1, 0)}, browser : {EmptyStr}]
Queries ==
    {EmptyStr, S(1, "n", 1, 1), S(0, "N", 1, 0), S(0, "n", 2, 0), S(0, "s", 2, 0),
     S(0, "o", 1, 0), S(0, "%", 1, 0), S(0, "_", 1, 0), S(0, "_", 3, 0), S(0, "e'", 1, 0)}

InitRead == Init /\ botImpl = "serial"

NextRead ==
    \/ \E data \in SearchData : WebRegisterCheck(1, data)
    \/ WebRegisterInsert(1)
    \/ \E q \in Queries : ApiSearchDevices(q)
    \/ ApiDevices
    \/ ApiStatsTotal
    \/ ApiStatsGroups

SpecRead == InitRead /\ [][NextRead]_vars

\* SpecBot with the inline buttons
NextButton ==
    \/ NextBot
    \/ \E u \in Users, data \in ButtonData : BotButtonCallback(u, data)

SpecButton == InitBot /\ [][NextButton]_vars

\* Sessions over time: logins and logouts while the clock runs, requests that
\* carry a dropped cookie, and the privileged requests of the dashboard and of
\* DELETE /api/devices/<id> on a registry filled through POST /register.
NextToken ==
    \/ Tick
    \/ \E data \in WebDataCore : WebRegisterCheck(1, data)
    \/ WebRegisterInsert(1)
    \/ \E c \in Clients, password \in Passwords : Login(c, "admin", password)
    \/ \E c \in Clients : Logout(c)
    \/ \E c \in Clients, cookie \in dropped : CookieReplay(c, cookie)
    \/ \E c \in Clients : AdminDashboard(c)
    \/ \E c \in Clients, id \in DeviceIds : ApiDeleteDevice(c, id)

SpecToken == InitBot /\ [][NextToken]_vars

----------------------------------------------------------------------------
(* Claims *)

\* C1: in every reachable state no two distinct devices have the same non-null
\* serial_number.
C1_UniqueSerial ==
    \A d1, d2 \in devices :
        (d1 # d2 /\ d1.serial_number # NULL /\ d2.serial_number # NULL)
            => d1.serial_number # d2.serial_number

\* C2: a Register call (web or bot serial step) that completes while its serial
\* number is present in the registry writes nothing and is answered with the
\* DuplicateSerial rejection ("already registered"), whatever the interleaving of
\* the calls' existence checks and inserts; so of the concurrent calls with one
\* serial exactly one succeeds and every other one is told DuplicateSerial.
C2_DuplicateSerialForLosers ==
    [][ /\ \A w \in Workers :
             (webPc[w] # NoReq /\ webPc'[w] = NoReq
                 /\ SerialExists(webPc[w].serial_number))
               => (devices' = devices
                     /\ resp' = R("register", w, 400, "Serial number is already registered"))
        /\ (botPc # NoBotReq /\ botPc' = NoBotReq /\ SerialExists(botPc.serial_number))
               => (devices' = devices
                     /\ resp' = R("bot_serial", botPc.user, 0,
                                  "Serial number is already registered"))
      ]_vars

\* C3: a row that appears in devices is not authorized (is_authorized is 0, or
\* absent while the column does not exist), and is_authorized of a row becomes 1
\* only in a successful authorize step (by id or by serial) on a row that
\* existed before the step.
C3_CreatedUnauthorized ==
    [][ \A d \in devices' :
          LET old == { o \in devices : o.id = d.id }
          IN  /\ old = {} =>
                    d.is_authorized = (IF schema.authCol THEN 0 ELSE NoValue)
              /\ (d.is_authorized = 1 /\ \A o \in old : o.is_authorized # 1) =>
                    /\ old # {}
                    /\ resp'.op \in {"authorize", "authorize_serial"}
                    /\ resp'.code = 200
      ]_vars

\* a row written by the legacy bot, now with the column's default, next to a row
\* an administrator has authorized
C3_Witness ==
    /\ \E d \in devices : d.serial_number = NULL /\ d.is_authorized = 0
    /\ \E d \in devices : d.serial_number # NULL /\ d.is_authorized = 1
    /\ schema.authCol

AdminOps == {"authorize", "authorize_serial", "update", "delete"}

\* a device present before and after the step whose is_authorized went to or from 1
AuthFlipped ==
    \E d \in devices, e \in devices' :
        /\ d.id = e.id
        /\ d.is_authorized # e.is_authorized
        /\ 1 \in {d.is_authorized, e.is_authorized}

\* C4: a request to one of the four mutating admin endpoints from a client without
\* a session is answered 401 and leaves devices unchanged; is_authorized flips
\* only in a step of a client that holds a session.
C4_NoSessionUnauthorized ==
    [][ /\ \A c \in Clients :
             (resp'.op \in AdminOps /\ resp'.who = c /\ session[c] = NoSession)
                => (resp'.code = 401 /\ devices' = devices)
        /\ AuthFlipped =>
             (resp'.op \in AdminOps /\ resp'.who \in Clients
                /\ session[resp'.who] # NoSession)
      ]_vars

\* a 401 to a client without a session while the registry holds a device
C4_Witness ==
    /\ resp.op \in AdminOps /\ resp.code = 401
    /\ resp.who \in Clients /\ session[resp.who] = NoSession
    /\ devices # {}

PrivilegedOps == AdminOps \cup {"admin"}

\* the admin a session was issued for is still in admins under the same username
SessionStillValid(c) ==
    \E a \in admins : a.id = session[c].admin_id /\ a.username = session[c].admin

\* C5: a privileged operation attempted with a session whose admin record has been
\* deleted or renamed is refused (it does not succeed) and changes no device.
C5_StaleSessionRefused ==
    [][ \A c \in Clients :
          (resp'.op \in PrivilegedOps /\ resp'.who = c
              /\ session[c] # NoSession /\ ~SessionStillValid(c))
             => (devices' = devices /\ resp'.code # 200)
      ]_vars

\* the seven checks of the intake in their order, each decided on its own
IntakeCheck(data, i) ==
    CASE i = 1 -> len(strip(data.name)) = 0
      [] i = 2 -> len(strip(data.serial_number)) = 0
      [] i = 3 -> len(strip(data.name)) > MaxNameLen
      [] i = 4 -> len(strip(data.serial_number)) > MaxSerialLen
      [] i = 5 -> len(strip(data.os)) > MaxOsLen
      [] i = 6 -> len(strip(data.browser)) > MaxBrowserLen
      [] i = 7 -> \E d \in devices : d.serial_number = strip(data.serial_number)

IntakeRejections ==
    << "Device name is required", "Serial number is required",
       "Device name is too long", "Serial number is too long",
       "OS name is too long", "Browser name is too long",
       "Serial number is already registered" >>

\* C6: for every JSON request body, when check i is violated and no earlier check
\* is, POST /register answers 400 with the rejection of check i.
C6_FirstFailureWins ==
    \A data \in WebData :
        LET reply == RegisterReply(data)
        IN  \A i \in 1..7 :
                (data.kind = "object" /\ IntakeCheck(data, i)
                    /\ \A j \in 1..(i - 1) : ~IntakeCheck(data, j))
                  => reply = [code |-> 400, msg |-> IntakeRejections[i]]

\* the registry holds a serial, a request repeating it with an oversized os exists,
\* and the last reply is the rejection of the os
C6_Witness ==
    /\ \E data \in WebData :
           /\ data.kind = "object"
           /\ \A i \in 1..7 : IntakeCheck(data, i) <=> i \in {5, 6, 7}
           /\ RegisterReply(data).msg = "OS name is too long"
    /\ resp.op = "register" /\ resp.code = 400 /\ resp.msg = "OS name is too long"

\* C7: every device in the registry has a name of 1 to 100 characters and a
\* serial number of 1 to 100 characters.
C7_NameAndSerialPresent ==
    \A d \in devices :
        /\ len(d.name) >= 1 /\ len(d.name) <= MaxNameLen
        /\ d.serial_number # NULL
        /\ len(d.serial_number) >= 1 /\ len(d.serial_number) <= MaxSerialLen

\* the serial is of valid length after trimming
ValidSerialText(text) == len(strip(text)) >= 1 /\ len(strip(text)) <= MaxSerialLen
ValidNameText(text) == len(strip(text)) >= 1 /\ len(strip(text)) <= MaxNameLen

\* C8: in AwaitingSerial a valid serial that some device already has is rejected:
\* no device is written, the conversation stays in AwaitingSerial and the
\* collected name is kept.  A valid serial no device has goes on to the INSERT,
\* and when it is still unused there, exactly one device with the collected name
\* and that serial is added and the conversation returns to Idle.
C8_DuplicateSerialRetry ==
    [][ \A u \in Users :
          /\ \A text \in SerialInputs :
               (BotSerialCheck(u, text) /\ ValidSerialText(text)) =>
                  IF \E d \in devices : d.serial_number = strip(text)
                  THEN /\ devices' = devices /\ nextId' = nextId
                       /\ botPc' = NoBotReq
                       /\ conv'[u] = WAITING_FOR_SERIAL_NUMBER
                       /\ user_data'[u] = user_data[u]
                  ELSE /\ botPc'.user = u
                       /\ botPc'.serial_number = strip(text)
                       /\ botPc'.device_name = user_data[u].device_name
                       /\ devices' = devices
          /\ (BotSerialInsert /\ botPc.user = u
                /\ ~\E d \in devices : d.serial_number = botPc.serial_number) =>
                  /\ \E d \in devices' :
                        /\ d \notin devices
                        /\ devices' = devices \cup {d}
                        /\ d.name = user_data[u].device_name
                        /\ d.serial_number = botPc.serial_number
                  /\ conv'[u] = Idle
      ]_vars

\* a user in AwaitingSerial with a collected name who has just been told that the
\* serial is taken
C8_Witness ==
    \E u \in Users :
        /\ resp = R("bot_serial", u, 0, "Serial number is already registered")
        /\ conv[u] = WAITING_FOR_SERIAL_NUMBER
        /\ user_data[u].device_name # None
        /\ devices # {}

\* C9: /register moves Idle to AwaitingName; a valid name moves AwaitingName to
\* AwaitingSerial and is stored trimmed; an invalid name and an invalid-length
\* serial leave the state and the stored name as they are; text outside a
\* conversation changes nothing; and a user's conversation state changes only
\* along Idle -> AwaitingName (/register), AwaitingName -> AwaitingSerial (name),
\* AwaitingSerial -> Idle (serial step or /cancel), AwaitingName -> Idle (/cancel).
C9_ConversationTransitions ==
    [][ \A u \in Users :
          /\ BotRegisterCommand(u) =>
                (conv[u] = Idle /\ conv'[u] = WAITING_FOR_DEVICE_NAME
                   /\ user_data' = user_data)
          /\ \A text \in NameInputs :
                BotDeviceName(u, text) =>
                   IF ValidNameText(text)
                   THEN /\ conv'[u] = WAITING_FOR_SERIAL_NUMBER
                        /\ user_data'[u].device_name = strip(text)
                   ELSE /\ conv'[u] = WAITING_FOR_DEVICE_NAME
                        /\ user_data'[u] = user_data[u]
          /\ \A text \in SerialInputs :
                (BotSerialCheck(u, text) /\ ~ValidSerialText(text)) =>
                   /\ conv'[u] = WAITING_FOR_SERIAL_NUMBER
                   /\ user_data'[u] = user_data[u]
                   /\ devices' = devices /\ botPc' = NoBotReq
          /\ \A text \in NameInputs :
                BotHandleMessage(u, text) => (conv' = conv /\ user_data' = user_data)
          /\ conv'[u] # conv[u] =>
                /\ resp'.who = u
                /\ <<conv[u], conv'[u], resp'.op>> \in
                      { <<Idle, WAITING_FOR_DEVICE_NAME, "bot_register">>,
                        <<WAITING_FOR_DEVICE_NAME, WAITING_FOR_SERIAL_NUMBER, "bot_name">>,
                        <<WAITING_FOR_SERIAL_NUMBER, Idle, "bot_serial">>,
                        <<WAITING_FOR_SERIAL_NUMBER, Idle, "bot_cancel">>,
                        <<WAITING_FOR_DEVICE_NAME, Idle, "bot_cancel">> }
      ]_vars

\* a padded name of maximal length was stored trimmed, and an invalid serial has
\* just left the user in AwaitingSerial
C9_Witness ==
    \E u \in Users :
        /\ resp = R("bot_serial", u, 0, "Invalid serial number")
        /\ conv[u] = WAITING_FOR_SERIAL_NUMBER
        /\ user_data[u].device_name = S(0, "n", MaxNameLen, 0)

\* C10: /cancel returns the user's conversation to Idle, and after /cancel and
\* after the end of a registration no device name remains in the user's
\* collected state.
C10_CancelDropsState ==
    [][ \A u \in Users :
          (BotCancel(u) \/ (BotSerialInsert /\ botPc.user = u)) =>
              (conv'[u] = Idle /\ user_data'[u].device_name = None)
      ]_vars


\* C11: bot.py adds a device only in the step that takes a conversation from
\* AwaitingSerial to Idle with a successful registration; /register, the name
\* step, /cancel and a restart of the process write no device.
C11_WriteOnlyAtCompletion ==
    [][ /\ (\E d \in devices' \ devices : d.browser = TelegramBot) =>
              \E u \in Users :
                  /\ conv[u] = WAITING_FOR_SERIAL_NUMBER /\ conv'[u] = Idle
                  /\ resp' = R("bot_serial", u, 0, "Device Registered Successfully")
        /\ (\/ BotRestart
            \/ \E u \in Users : BotCancel(u) \/ BotRegisterCommand(u)
            \/ \E u \in Users, text \in NameInputs : BotDeviceName(u, text))
              => devices' = devices
      ]_vars

\* a conversation cancelled after its name was collected, and no device of the bot
C11_Witness ==
    \E u \in Users :
        /\ resp = R("bot_cancel", u, 0, "Registration cancelled")
        /\ user_data[u].device_name # None
        /\ \A d \in devices : d.browser # TelegramBot

\* a step of the bot on an update of user u
UpdateFrom(u) ==
    \/ BotRegisterCommand(u)
    \/ \E text \in NameInputs : BotDeviceName(u, text)
    \/ \E text \in SerialInputs : BotSerialCheck(u, text)
    \/ (BotSerialInsert /\ botPc.user = u)
    \/ BotCancel(u)
    \/ \E text \in NameInputs : BotHandleMessage(u, text)

\* C12: a step of the bot on an update of user u leaves the conversation state
\* and the collected name of every other user as they are.
C12_PerUserState ==
    [][ \A u \in Users :
          UpdateFrom(u) =>
              \A v \in Users \ {u} :
                  conv'[v] = conv[v] /\ user_data'[v] = user_data[v]
      ]_vars

\* two users in AwaitingSerial at once, each with the name it sent
C12_Witness ==
    \E u, v \in Users :
        /\ u # v
        /\ conv[u] = WAITING_FOR_SERIAL_NUMBER /\ conv[v] = WAITING_FOR_SERIAL_NUMBER
        /\ user_data[u].device_name = S(0, "n", 1, 0)
        /\ user_data[v].device_name = S(0, "n", MaxNameLen, 0)

\* C13: a webhook delivery whose secret header is absent or differs from the
\* configured secret is rejected with 403 and changes neither the deliveries
\* handed to the bot, nor a conversation, nor the registry.
C13_SecretRequired ==
    [][ \A header \in Headers, body \in HookBodies :
            (HookDeliver(header, body) /\ (header = "" \/ header # hook.secret))
                => /\ resp' = R("webhook", body.user, 403, "Forbidden")
                   /\ tasks' = tasks
                   /\ conv' = conv
                   /\ user_data' = user_data
                   /\ devices' = devices ]_vars

\* C14: a webhook delivery that passed the secret check and carries an update is
\* answered 200 {status: ok} in the step that accepts it, before and whatever
\* the processing of the update does.
C14_AckRegardlessOfProcessing ==
    [][ \A header \in Headers, body \in HookUpdates :
            (HookDeliver(header, body) /\ ~SecretRejected(header))
                => resp' = R("webhook", body.user, 200, "ok") ]_vars

\* C15: updates of one user are applied one at a time: while the handler of a
\* user's update has started and not yet returned, no later update of the same
\* user is in a handler.
C15_OneUpdateAtATimePerUser ==
    \A i \in 1..Len(tasks), j \in 1..Len(tasks) :
        (i < j /\ tasks[i].upd.user = tasks[j].upd.user)
            => ~(tasks[i].pc = "awaiting" /\ tasks[j].pc = "awaiting")

\* C16: in every state, the update that arrives by webhook produces the same
\* conversation transition and the same registry write as the same update
\* arriving by polling.
C16_PollWebhookEquivalent ==
    \A upd \in HookUpdates :
        LET push == HandlerStep(HookImpl, upd.user, upd)
            pull == HandlerStep(PollImpl, upd.user, upd)
        IN  push.ret = pull.ret /\ push.row = pull.row

\* C17: a login whose password equals the plaintext stored for the username
\* succeeds, opens the session of that admin and leaves a hash of the password
\* stored in place of the plaintext; a login whose password is verified by the
\* stored hash succeeds and leaves the hash as it is.
C17_PlaintextLoginMigrates ==
    [][ \A c \in Clients, username \in Usernames, password \in Passwords :
            Login(c, username, password) =>
                \A a \in AdminByName(username) :
                    /\ a.password = Plain(password) =>
                          /\ resp' = R("login", c, 302, "admin_dashboard")
                          /\ session'[c] = [admin |-> username, admin_id |-> a.id, iat |-> now]
                          /\ \E b \in admins' :
                                /\ b.id = a.id
                                /\ b.password = generate_password_hash(Plain(password))
                    /\ a.password = generate_password_hash(Plain(password)) =>
                          /\ resp' = R("login", c, 302, "admin_dashboard")
                          /\ a \in admins' ]_vars

\* C18: no step of startup migration or login changes a stored credential that
\* is already a hash: every admin holding a hash holds the same hash afterwards.
C18_HashNeverRehashed ==
    [][ \A a \in admins :
            a.password.rounds >= 1 =>
                \E b \in admins' : b.id = a.id /\ b.password = a.password ]_vars

\* init_admin has just run over a table in which some credential was a hash
\* already, and no credential has been hashed more than once
C18_Witness ==
    /\ resp.op = "init_admin"
    /\ \E a \in admins : a.username = "root" /\ a.password.rounds = 1
    /\ \A a \in admins : a.password.rounds <= 1

\* C19: after either init_admin has run, every admin's stored credential is a
\* hash.
C19_NoPlaintextAfterInitAdmin ==
    [][ (InitAdmin \/ InitDbInitAdmin) =>
            \A a \in admins' : a.password.rounds >= 1 ]_vars

\* C20: init_admin inserts no admin when the admins table holds at least one.
C20_DefaultAdminOnlyIfEmpty ==
    [][ ((InitAdmin \/ InitDbInitAdmin) /\ admins # {}) =>
            { a.id : a \in admins' } = { a.id : a \in admins } ]_vars

\* the password that login accepts for a stored value
Accepts(stored, pw) ==
    IF stored.rounds > 0 \/ stored.pw = "pa$$"
    THEN stored.rounds = 1 /\ stored.pw = pw
    ELSE stored = Plain(pw)

\* C21: a run of init_admin leaves a row named 'admin' behind, and a run that
\* finds such a row (as every run after the first does) neither adds nor
\* removes an admin and leaves the passwords accepted for 'admin' and for every
\* other admin as they were.
C21_EnsureDefaultAdminIdempotent ==
    [][ (InitAdmin \/ InitDbInitAdmin) =>
            /\ \E b \in admins' : b.username = "admin"
            /\ (\E a \in admins : a.username = "admin") =>
                  /\ { <<b.id, b.username>> : b \in admins' }
                        = { <<a.id, a.username>> : a \in admins }
                  /\ \A a \in admins, b \in admins' :
                        a.id = b.id =>
                            \A pw \in Passwords :
                                Accepts(b.password, pw) = Accepts(a.password, pw) ]_vars

\* init_admin has run over a table whose 'admin' was there before and did not
\* hold the default password
C21_Witness ==
    /\ resp.op = "init_admin"
    /\ \E a \in admins : a.username = "admin" /\ a.password.pw = "pa$$"

\* C22: every login attempt with a well-formed username that does not succeed,
\* for an unknown username as for a known one with a wrong password, is
\* answered with the one message "Invalid username or password" and issues no
\* session.
C22_UniformLoginFailure ==
    [][ \A c \in Clients, username \in Usernames, password \in Passwords :
            (Login(c, username, password) /\ resp'.code # 302)
                => /\ resp' = R("login", c, 200, "Invalid username or password")
                   /\ session' = session ]_vars

\* the requests PUT /api/devices/<id> is given in the registry's specification
UpdateRequests ==
    [c : {1}, id : DeviceIds, name : {S(1, "n", MaxNameLen, 0)}, os : {EmptyStr},
     browser : {EmptyStr}]

\* C23: an update of device id by a logged-in admin leaves every other device
\* as it was and keeps id, serial_number, is_authorized and registered_at of the
\* device itself; when it succeeds the device has the given name, os and browser;
\* when no device has the id it answers 404 and the registry is unchanged.
C23_UpdateFrame ==
    [][ \A q \in UpdateRequests :
            (ApiUpdateDevice(q.c, q.id, TRUE, q.name, q.os, q.browser)
             /\ session[q.c] # NoSession)
                => /\ \A d \in devices : d.id # q.id => d \in devices'
                   /\ \A e \in devices' : e.id # q.id => e \in devices
                   /\ \A d \in devices : d.id = q.id =>
                         \E e \in devices' :
                             /\ e = [d EXCEPT !.name = e.name, !.os = e.os,
                                              !.browser = e.browser]
                             /\ resp'.code = 200 =>
                                   /\ e.name = strip(q.name)
                                   /\ e.os = strip(q.os)
                                   /\ e.browser = strip(q.browser)
                   /\ (\A d \in devices : d.id # q.id) =>
                         /\ devices' = devices
                         /\ resp'.code \in {404, 500}
                         /\ schema.table => resp' = R("update", q.c, 404, "Device not found")
                   /\ (\E d \in devices : d.id = q.id) => resp'.code = 200 ]_vars

\* an update has renamed one of two devices and the other still has its name
C23_Witness ==
    /\ resp.op = "update" /\ resp.code = 200
    /\ \E d \in devices, e \in devices :
          /\ d.name = S(0, "n", MaxNameLen, 0)
          /\ e.name = S(0, "n", 1, 0)
          /\ d.serial_number # NULL

\* what a step did to the registry: the devices in `matching` have is_authorized
\* = status and are otherwise as before, every other device is as before
AuthorizationSet(matching, status) ==
    /\ { d.id : d \in devices' } = { d.id : d \in devices }
    /\ \A d \in devices :
          IF d \in matching
          THEN [d EXCEPT !.is_authorized = status] \in devices'
          ELSE d \in devices'

\* C24: an authorize request of a logged-in admin, by id or by serial number,
\* finds at most one device; when it finds one, that device gets the requested
\* is_authorized and nothing else changes; when it finds none, the answer is
\* 404 and the registry is unchanged.
C24_SetAuthorizationFrame ==
    [][ \A authorize \in BOOLEAN :
          /\ \A id \in DeviceIds :
                (ApiAuthorizeDevice(1, id, TRUE, authorize) /\ session[1] # NoSession
                 /\ schema.authCol)
                    => LET matching == { d \in devices : d.id = id }
                       IN  /\ Cardinality(matching) <= 1
                           /\ AuthorizationSet(matching, IF authorize THEN 1 ELSE 0)
                           /\ resp'.code = IF matching = {} THEN 404 ELSE 200
          /\ (ApiAuthorizeSerial(1, S(0, "s", 1, 0), TRUE, authorize)
              /\ session[1] # NoSession /\ schema.authCol)
                    => LET matching == { d \in devices : d.serial_number = S(0, "s", 1, 0) }
                       IN  /\ Cardinality(matching) <= 1
                           /\ AuthorizationSet(matching, IF authorize THEN 1 ELSE 0)
                           /\ resp'.code = IF matching = {} THEN 404 ELSE 200 ]_vars

\* a device was authorized by its serial number next to a device without one,
\* which is still not authorized
C24_Witness ==
    /\ resp.op = "authorize_serial" /\ resp.code = 200
    /\ \E d \in devices, e \in devices :
          /\ d.serial_number = S(0, "s", 1, 0) /\ d.is_authorized = 1
          /\ e.serial_number = NULL /\ e.is_authorized # 1

\* C25: a delete request of a logged-in admin for device id removes that device
\* and no other; when no device has the id the answer is 404 and the registry
\* is unchanged.
C25_DeleteExactlyOne ==
    [][ \A id \in DeviceIds :
            (ApiDeleteDevice(1, id) /\ session[1] # NoSession /\ schema.table)
                => IF \E d \in devices : d.id = id
                   THEN /\ devices' = devices \ { d \in devices : d.id = id }
                        /\ Cardinality(devices') = Cardinality(devices) - 1
                        /\ resp' = R("delete", 1, 200, "Device deleted successfully")
                   ELSE /\ devices' = devices
                        /\ resp' = R("delete", 1, 404, "Device not found") ]_vars

\* the newer of two devices was deleted and the older one is still there
C25_Witness ==
    /\ resp = R("delete", 1, 200, "Device deleted successfully")
    /\ nextId = 3
    /\ \E d \in devices : d.id = 1
    /\ Cardinality(devices) = 1

\* the letters a case-insensitive comparison folds
CaseFold(ch) == IF ch = "N" THEN "n" ELSE IF ch = "E'" THEN "e'" ELSE ch

\* text contains q as a substring, letters compared without regard to case
Contains(value, q) ==
    /\ value # NULL
    /\ \E i \in 1..(len(value) - len(q) + 1) :
          \A k \in 1..len(q) :
              CaseFold(Chars(value)[i + k - 1]) = CaseFold(Chars(q)[k])

\* the devices one of whose name, serial, os, browser contains q
ContainingDevices(q) ==
    { d \in devices : \/ Contains(d.name, q) \/ Contains(d.serial_number, q)
                      \/ Contains(d.os, q) \/ Contains(d.browser, q) }

\* C26: on an up-to-date database a search for a non-empty q returns the ids of
\* exactly the devices one of whose name, serial, os and browser contains q as a
\* case-insensitive substring, highest id first; '%' and '_' in q stand for
\* themselves.
C26_SearchExact ==
    [][ \A q \in Queries :
            (ApiSearchDevices(q) /\ len(strip(q)) > 0 /\ schema = CurrentSchema)
                => /\ resp'.code = 200
                   /\ { resp'.body[i] : i \in 1..Len(resp'.body) }
                         = { d.id : d \in ContainingDevices(strip(q)) }
                   /\ Len(resp'.body) = Cardinality(ContainingDevices(strip(q)))
                   /\ \A i \in 1..(Len(resp'.body) - 1) :
                         resp'.body[i] > resp'.body[i + 1] ]_vars

RECURSIVE SumOver(_, _)
SumOver(f, keys) ==
    IF keys = {} THEN 0
    ELSE LET k == CHOOSE x \in keys : TRUE IN f[k] + SumOver(f, keys \ {k})

\* C27: the statistics reply gives for every os and every browser value the
\* number of devices having exactly that value, and both groupings sum to the
\* total of the same reply.
C27_StatsConsistent ==
    [][ (ApiStatsGroups /\ resp'.code = 200) =>
            LET stats == resp'.body
            IN  /\ \A v \in DOMAIN stats.by_os :
                      stats.by_os[v] = Cardinality({ d \in devices : d.os = v })
                /\ \A v \in DOMAIN stats.by_browser :
                      stats.by_browser[v] = Cardinality({ d \in devices : d.browser = v })
                /\ SumOver(stats.by_os, DOMAIN stats.by_os) = stats.total
                /\ SumOver(stats.by_browser, DOMAIN stats.by_browser) = stats.total ]_vars

\* C28: no reply of an HTTP endpoint carries the text of the exception that
\* made it fail.
C28_NoExceptionText ==
    resp.code = 500 => resp.msg \notin {NoSuchTable, NoSuchColumn}

\* C29: whenever no run of init_db or migrate is under way, a devices table that
\* has the serial_number column also has its unique index (so storage rejects
\* a second device with a serial already present), however many runs there were.
C29_MigratedSchemaEnforcesUnique ==
    (\A m \in Migrators : mig[m].pc = "idle")
        => (schema.table /\ schema.serialCol => schema.uniqueIdx)

\* C30: no two devices have the same id; a device created in a step gets an id
\* above every id assigned before (the AUTOINCREMENT counter, which no delete
\* lowers), so ids rise in creation order and none is reused; a device that has
\* a serial_number keeps its serial_number and its registered_at in every step.
C30_IdsAndSerialImmutable ==
    [][ /\ \A d \in devices', e \in devices' : d.id = e.id => d = e
        /\ \A e \in devices' :
              (\A d \in devices : d.id # e.id) =>
                  /\ e.id >= nextId
                  /\ nextId' > e.id
                  /\ \A d \in devices : d.id < e.id /\ d.registered_at <= e.registered_at
        /\ nextId' >= nextId
        /\ \A d \in devices, e \in devices' :
              (d.id = e.id /\ d.serial_number # NULL) =>
                  /\ e.serial_number = d.serial_number
                  /\ e.registered_at = d.registered_at ]_vars

\* the only device was deleted and the device registered after that got the
\* next id, not the freed one
C30_Witness ==
    /\ nextId = 3
    /\ Cardinality(devices) = 1
    /\ \E d \in devices : d.id = 2

\* C31: after a logout the cookie it revoked authenticates no privileged
\* operation: a request that carries it is sent to login or answered 401 and
\* changes no device (stated for a cookie signed in an earlier second, which no
\* login after the logout can have issued again); and a logout without a
\* session is answered like any other and changes nothing.
C31_RevokeEffectiveIdempotent ==
    [][ /\ \A c \in Clients :
             (resp'.op \in PrivilegedOps /\ resp'.who = c
                /\ session[c] \in dropped /\ session[c].iat < now)
                => (resp'.code \in {302, 401} /\ devices' = devices)
        /\ \A c \in Clients :
             (resp'.op = "logout" /\ resp'.who = c)
                => /\ resp'.code = 302 /\ resp'.msg = "login"
                   /\ session'[c] = NoSession
                   /\ session[c] = NoSession =>
                        (session' = session /\ devices' = devices /\ admins' = admins)
      ]_vars

BotRejections ==
    {"Invalid device name", "Invalid serial number",
     "Serial number is already registered",
     "An error occurred while registering your device"}

\* C33: a registration that is turned down writes nothing.  Whenever POST
\* /register answers anything but success, or the bot answers a name or a serial
\* with a rejection (invalid field, serial already registered, failed insert),
\* the devices are the same after the step as before it.
C33_RejectionWritesNothing ==
    [][ /\ (resp'.op = "register" /\ resp'.code # 200) => devices' = devices
        /\ (resp'.op \in {"bot_name", "bot_serial"} /\ resp'.msg \in BotRejections)
              => devices' = devices
      ]_vars

\* the web request that lost the race for a serial against the bot: answered
\* 500 while the registry holds the bot's device
C33_Witness ==
    /\ resp.op = "register" /\ resp.code = 500
    /\ \E d \in devices : d.os = Telegram

\* C34: a conversation goes from AwaitingSerial to Idle only by /cancel or by a
\* serial step that wrote a device; a serial step that ends without a device
\* written (invalid or duplicate serial, failed insert) leaves the user in
\* AwaitingSerial.
C34_SerialStepKeepsState ==
    [][ \A u \in Users :
          /\ (conv[u] = WAITING_FOR_SERIAL_NUMBER /\ conv'[u] = Idle) =>
                \/ resp'.op = "bot_cancel" /\ resp'.who = u
                \/ /\ resp'.op = "bot_serial" /\ resp'.who = u
                   /\ \E d \in devices' : d \notin devices
          /\ (resp'.op = "bot_serial" /\ resp'.who = u /\ devices' = devices) =>
                conv'[u] = WAITING_FOR_SERIAL_NUMBER
      ]_vars

\* the steps that handle a text message of a user
TextOps == {"bot_name", "bot_serial", "bot_serial_select", "bot_message"}

\* C35: after the 'register' button, which shows the same prompt as /register,
\* the user's conversation is in AwaitingName, and the next text of that user is
\* taken as the device name: it is answered with the serial prompt or, when it
\* is no valid name, with the request for another name.
C35_ButtonStartsRegistration ==
    [][ \A u \in Users :
          /\ (resp'.op = "bot_button" /\ resp'.who = u
                /\ resp'.msg = "Please send me the name for your device")
                => conv'[u] = WAITING_FOR_DEVICE_NAME
          /\ (resp.op = "bot_button" /\ resp.who = u
                /\ resp.msg = "Please send me the name for your device"
                /\ resp'.op \in TextOps /\ resp'.who = u)
                => /\ resp'.op = "bot_name"
                   /\ resp'.msg \in {"Now please send me the Serial Number",
                                     "Invalid device name"}
      ]_vars

ValidRequests ==
    { d \in [kind : {"object"}, name : {S(0, "n", 1, 0)},
             serial_number : {S(0, "s", 1, 0), S(1, "s", MaxSerialLen, 0)},
             os : OsInputs, browser : BrowserInputs] :
        d.os = EmptyStr /\ d.browser = EmptyStr }

\* C37: authorization does not survive deletion.  A successful DELETE removes
\* the row, and with it the serial number unless another row holds the same one,
\* and leaves the id counter where it was, above the deleted id.  On a migrated
\* database a registration with a serial number that no row holds is not turned
\* down, from the web form or from the bot, and the row it writes has the next
\* id, larger than every id given out before, and is_authorized = 0.
C37_AuthorizationNotInherited ==
    [][ /\ \A id \in DeviceIds :
             (resp'.op = "delete" /\ resp'.code = 200 /\ ApiDeleteDevice(1, id)) =>
                \A d \in devices :
                    d.id = id =>
                       /\ \A e \in devices' : e.id # id
                       /\ (\A o \in devices : o.serial_number = d.serial_number => o = d)
                             => \A e \in devices' : e.serial_number # d.serial_number
                       /\ nextId' = nextId /\ nextId > id
        /\ \A data \in ValidRequests :
             (/\ resp'.op \in {"register", "register_select"}
              /\ schema = CurrentSchema
              /\ \A e \in devices : e.serial_number # strip(data.serial_number)
              /\ WebRegisterCheck(1, data))
                => resp'.op = "register_select"
        /\ (/\ resp'.op = "register"
            /\ schema = CurrentSchema
            /\ \A e \in devices : e.serial_number # webPc[1].serial_number
            /\ WebRegisterInsert(1))
              => /\ resp'.code = 200
                 /\ \E e \in devices' :
                       /\ e \notin devices /\ devices' = devices \cup {e}
                       /\ e.serial_number = webPc[1].serial_number
                       /\ e.id = nextId /\ e.is_authorized = 0
        /\ (/\ resp'.op = "bot_serial"
            /\ schema = CurrentSchema
            /\ \A e \in devices : e.serial_number # botPc.serial_number
            /\ BotSerialInsert)
              => /\ resp'.msg = "Device Registered Successfully"
                 /\ \E e \in devices' :
                       /\ e \notin devices /\ devices' = devices \cup {e}
                       /\ e.serial_number = botPc.serial_number
                       /\ e.id = nextId /\ e.is_authorized = 0
        /\ nextId' >= nextId
        /\ \A d \in devices' : d.id < nextId'
      ]_vars

\* the first device has been deleted and the registration that followed was
\* accepted: the registry holds one device, with id 2 and not authorized
C37_Witness ==
    /\ resp.op = "register" /\ resp.code = 200
    /\ nextId = 3
    /\ \E d \in devices :
          devices = {d} /\ d.id = 2 /\ d.is_authorized = 0
             /\ d.serial_number = S(0, "s", 1, 0)

----------------------------------------------------------------------------
(* Credential migration under interleaving *)

\* Admin tables as earlier versions left them; init_admin runs statement by
\* statement while two requests POST /login, each between its SELECT and its
\* UPDATE, so that every order of the reads and the writes occurs.
NextMigrate ==
    \/ InitAdminSelect
    \/ InitAdminFirst
    \/ InitAdminSelectAll
    \/ InitAdminUpdate
    \/ \E w \in Workers, c \in Clients, username \in Usernames, password \in Passwords :
           LoginSelect(w, c, username, password)
    \/ \E w \in Workers : LoginFinish(w)
    \/ \E c \in Clients : Logout(c)

SpecMigrate == InitAdminStore /\ [][NextMigrate]_vars

\* C38: whatever the order of init_admin's statements and of the two halves of
\* concurrent logins, every step leaves each admin in the table with its id,
\* its name and the same set of accepted passwords, no stored value is a hash
\* of a hash, and a login succeeds exactly when the row it read accepts the
\* password it was given.
C38_MigrationKeepsAcceptedPasswords ==
    [][ /\ \A a \in admins : \E b \in admins' :
              /\ b.id = a.id
              /\ b.username = a.username
              /\ \A pw \in Passwords : Accepts(b.password, pw) <=> Accepts(a.password, pw)
        /\ \A b \in admins' : b.password.rounds <= 1
        /\ \A w \in Workers :
              (resp'.op = "login" /\ LoginFinish(w)) =>
                 ((resp'.code = 302) <=>
                     \E a \in loginPc[w].rows : Accepts(a.password, loginPc[w].password)) ]_vars

\* one lazy migration has just finished while init_admin is under way and a
\* second login still holds the same legacy credential as plaintext and is
\* about to write it again
C38_Witness ==
    /\ resp.op = "login" /\ resp.code = 302
    /\ adminPc.pc # "idle"
    /\ \E w \in Workers :
          /\ loginPc[w] # NoLogin
          /\ \E a \in loginPc[w].rows :
                /\ a.password = Plain(loginPc[w].password)
                /\ \E b \in admins : b.id = a.id /\ b.password.rounds = 1

\* C39: a step that puts a session into a client's cookie is the end of a
\* login of that client whose SELECT returned a row with the session's id and
\* name and whose password that row accepts; the row is in the table with that
\* id and name when the session is issued and accepts the password there too,
\* and every session held afterwards names a row of the table.
C39_SessionOnlyFromVerifiedLogin ==
    [][ /\ \A c \in Clients :
              (session'[c] # session[c] /\ session'[c] # NoSession) =>
                 /\ resp'.op = "login" /\ resp'.code = 302 /\ resp'.who = c
                 /\ \E w \in Workers :
                       /\ loginPc[w].client = c
                       /\ loginPc'[w] = NoLogin
                       /\ loginPc[w].username = session'[c].admin
                       /\ \E row \in loginPc[w].rows :
                             /\ row.id = session'[c].admin_id
                             /\ row.username = session'[c].admin
                             /\ Accepts(row.password, loginPc[w].password)
                       /\ \E a \in admins :
                             /\ a.id = session'[c].admin_id
                             /\ a.username = session'[c].admin
                             /\ Accepts(a.password, loginPc[w].password)
        /\ \A c \in Clients :
              session'[c] # NoSession =>
                 \E a \in admins' : /\ a.id = session'[c].admin_id
                                    /\ a.username = session'[c].admin ]_vars

\* a session for the second row of the table, issued by a login that read the
\* row as plaintext, while another login is between its SELECT and its check
C39_Witness ==
    /\ resp.op = "login" /\ resp.code = 302
    /\ session[resp.who] # NoSession
    /\ session[resp.who].admin_id = 2
    /\ \E a \in admins : a.id = 2 /\ a.username = session[resp.who].admin
                         /\ a.password.rounds = 1
    /\ \E w \in Workers : loginPc[w] # NoLogin /\ loginPc[w].rows # {}

----------------------------------------------------------------------------
(* The lookup bot of test1.py *)

\* `"free_calls": 10` of a new account
FreeCalls == 10

\* callback data of the menu's buttons: two pages of the menu and two services
MenuData == {"account", "services", "svc_imei", "svc_carrier"}

\* what requests.get and response.json() do: return a result, or raise
ApiOutcomes == {"result", "error"}

\* what reply_text of the result does: send the message, or raise (Telegram
\* refuses a text of more than 4096 characters, the network fails)
ReplyOutcomes == {"sent", "failed"}

\* get_user: USER_DB after the call, with an account for user_id
get_user(user_id) ==
    IF USER_DB[user_id] = Absent
    THEN [USER_DB EXCEPT ![user_id] =
             [registered |-> TRUE, free_calls |-> FreeCalls, paid_calls |-> 0]]
    ELSE USER_DB

\* a quota test that lets the last call through
QuotaExhaustedBelowZero(user) == user.free_calls < 0

\* `user["free_calls"] <= 0`
QuotaExhausted(user) == user.free_calls <= 0

\* `user_id not in STATE or not STATE[user_id]["awaiting_imei"]` is false
AwaitingImei(user_id) ==
    IMEI_STATE[user_id] # Absent /\ IMEI_STATE[user_id].awaiting_imei

\* menu_callback: "account" reads the account through get_user, a service
\* button stores the service and sets the flag, the other buttons show a page
menu_callback(user_id, data) ==
    /\ USER_DB' = IF data = "account" THEN get_user(user_id) ELSE USER_DB
    /\ IMEI_STATE' = IF data \in {"svc_imei", "svc_carrier"}
                     THEN [IMEI_STATE EXCEPT ![user_id] =
                              [awaiting_imei |-> TRUE, service |-> data]]
                     ELSE IMEI_STATE
    /\ resp' = R("menu_callback", user_id, 0, data)
    /\ UNCHANGED <<dbVars, session, webPc, botVars, mig, nextAdminId, hookVars, readPc, authVars>>

\* receive_imei for a text message of user_id that is no command
receive_imei(user_id, api, reply) ==
    /\ IF ~AwaitingImei(user_id)
       THEN /\ resp' = R("receive_imei", user_id, 0, "")
            /\ UNCHANGED lookupVars
       ELSE LET db == get_user(user_id)
            IN  IF QuotaExhausted(db[user_id])
                THEN /\ USER_DB' = db
                     /\ resp' = R("receive_imei", user_id, 0,
                                  "You have no free API calls left.")
                     /\ UNCHANGED IMEI_STATE
                ELSE IF api = "error"
                THEN /\ USER_DB' = db
                     /\ resp' = R("receive_imei", user_id, 0, "API error. Try again.")
                     /\ UNCHANGED IMEI_STATE
                ELSE /\ USER_DB' = [db EXCEPT ![user_id].free_calls = @ - 1]
                     /\ IF reply = "sent"
                        THEN /\ IMEI_STATE' = [IMEI_STATE EXCEPT
                                                  ![user_id].awaiting_imei = FALSE]
                             /\ resp' = R("receive_imei", user_id, 0, "Result")
                        ELSE /\ resp' = R("receive_imei", user_id, 500, "reply_text raised")
                             /\ UNCHANGED IMEI_STATE
    /\ UNCHANGED <<dbVars, session, webPc, botVars, mig, nextAdminId, hookVars, readPc, authVars>>

\* run_polling hands one update at a time to its handler; requests.get blocks
\* the loop, so no other handler runs inside receive_imei.
NextLookup ==
    \/ \E user_id \in Users, data \in MenuData : menu_callback(user_id, data)
    \/ \E user_id \in Users, api \in ApiOutcomes, reply \in ReplyOutcomes :
           receive_imei(user_id, api, reply)

SpecLookup == InitBot /\ [][NextLookup]_vars

\* free_calls as get_user would return it
FreeCallsOf(db, user_id) ==
    IF db[user_id] = Absent THEN FreeCalls ELSE db[user_id].free_calls

\* C40: free_calls of no account is ever negative.  A text message of a user
\* whose flag is not set changes nothing.  With the flag set: a user without
\* free calls is refused and keeps the count and the flag; an API error keeps
\* the count and the flag; a result takes exactly one call off a count that
\* was positive, and once the reply is sent the flag is cleared.  The menu
\* never changes a count, and no step touches the count of another user.
C40_LookupQuotaAndFlag ==
    [][ /\ \A u \in Users : FreeCallsOf(USER_DB', u) >= 0
        /\ \A u \in Users, api \in ApiOutcomes, reply \in ReplyOutcomes :
              (resp'.op = "receive_imei" /\ receive_imei(u, api, reply)) =>
                 /\ \A v \in Users \ {u} :
                       USER_DB'[v] = USER_DB[v] /\ IMEI_STATE'[v] = IMEI_STATE[v]
                 /\ ~AwaitingImei(u) => UNCHANGED lookupVars
                 /\ (AwaitingImei(u) /\ FreeCallsOf(USER_DB, u) <= 0) =>
                       /\ FreeCallsOf(USER_DB', u) = FreeCallsOf(USER_DB, u)
                       /\ resp'.msg = "You have no free API calls left."
                       /\ UNCHANGED IMEI_STATE
                 /\ (AwaitingImei(u) /\ FreeCallsOf(USER_DB, u) > 0 /\ api = "error") =>
                       /\ FreeCallsOf(USER_DB', u) = FreeCallsOf(USER_DB, u)
                       /\ UNCHANGED IMEI_STATE
                 /\ (AwaitingImei(u) /\ FreeCallsOf(USER_DB, u) > 0 /\ api = "result") =>
                       /\ FreeCallsOf(USER_DB', u) = FreeCallsOf(USER_DB, u) - 1
                       /\ reply = "sent" => ~IMEI_STATE'[u].awaiting_imei
        /\ \A u \in Users, data \in MenuData :
              (resp'.op = "menu_callback" /\ menu_callback(u, data)) =>
                 \A v \in Users : FreeCallsOf(USER_DB', v) = FreeCallsOf(USER_DB, v) ]_vars

\* a user who has used all ten calls asked for another lookup and was refused,
\* flag still set
C40_Witness ==
    /\ resp.op = "receive_imei"
    /\ resp.msg = "You have no free API calls left."
    /\ USER_DB[resp.who] # Absent
    /\ USER_DB[resp.who].free_calls = 0
    /\ AwaitingImei(resp.who)
====
